---------------------------- MODULE Spec2Model ----------------------------
(***************************************************************************)
(* A model of the TallyPrime JavaScript SDK: the XML message builder, the  *)
(* response interpreters of the four services and the connector they send  *)
(* their requests through.                                                 *)
(*                                                                         *)
(* JavaScript values are tagged records, so that the language's            *)
(* truthiness, `||` defaulting, typeof and Array.isArray are computed as   *)
(* the code computes them.  A string is a sequence of tokens: a reserved   *)
(* XML character is a token of its own, a fixed literal of the code        *)
(* ('Yes', 'New Ref', an error prefix) is one token.  Amounts are integers *)
(* counting hundredths (0.01), the tolerance of the balance check being    *)
(* one such unit; the arithmetic is exact.                                 *)
(*                                                                         *)
(* The services keep no state between calls (their constructors store the  *)
(* connector only), so a state of the model is one public call: its        *)
(* arguments, the replies the remote gives to the requests it issues, the  *)
(* messages built, the requests the connector received and the outcome.    *)
(* The connector keeps its configuration, which only updateConfig changes. *)
(***************************************************************************)
EXTENDS Integers, Sequences, FiniteSets, TLC

VARIABLES
    env,      \* process.env.TALLY_COMPANY
    pc,       \* "idle": no call in progress; "done": the last call has settled
    call,     \* the public operation called, with its arguments and the remote's replies
    built,    \* the XML payloads the message builder produced during the call
    sent,     \* the requests the connector received during the call, in order
    outcome,  \* what the call returned or raised
    connector \* the TallyConnector: host, port, timeout, baseUrl and its axios client

vars == <<env, pc, call, built, sent, outcome, connector>>

---------------------------------------------------------------------------
(* JavaScript values                                                       *)

Undefined == [t |-> "undefined"]
NaN == [t |-> "NaN"]
Str(s) == [t |-> "string", s |-> s]
Num(n) == [t |-> "number", n |-> n]
Bool(b) == [t |-> "boolean", b |-> b]
Obj(f) == [t |-> "object", o |-> f]
Arr(q) == [t |-> "array", a |-> q]
DateOf(d, m, y) == [t |-> "date", d |-> d, m |-> m, y |-> y]

EmptyStr == Str(<<>>)
Lit(token) == Str(<<token>>)

\* !!v
Truthy(v) ==
    CASE v.t = "undefined" -> FALSE
      [] v.t = "NaN" -> FALSE
      [] v.t = "string" -> v.s # <<>>
      [] v.t = "number" -> v.n # 0
      [] v.t = "boolean" -> v.b
      [] OTHER -> TRUE

\* a || b
Or(a, b) == IF Truthy(a) THEN a ELSE b

\* v[tag]: a property an object does not have, or any property of a string, is undefined
Get(v, tag) ==
    IF v.t = "object" /\ tag \in DOMAIN v.o THEN v.o[tag] ELSE Undefined

IsArray(v) == v.t = "array"

TypeofNumber(v) == v.t \in {"number", "NaN"}

\* a + b on numbers
Add(a, b) == IF a.t = "number" /\ b.t = "number" THEN Num(a.n + b.n) ELSE NaN

\* Math.abs(a)
Abs(a) == IF a.t = "number" THEN Num(IF a.n < 0 THEN -a.n ELSE a.n) ELSE NaN

\* a > n for a numeric literal n: false when a is NaN
GreaterThan(a, n) == a.t = "number" /\ a.n > n

\* a * k on numbers, k = 1 or -1
Times(a, k) == IF a.t = "number" THEN Num(a.n * k) ELSE NaN

---------------------------------------------------------------------------
(* Bounds of the model                                                     *)

\* the longest ledgerEntries sequence of a voucher, given or fetched
MaxEntries == 3
\* entry amounts range over -MaxAmount..MaxAmount hundredths
MaxAmount == 2

---------------------------------------------------------------------------
(* Strings, numbers as text, dates                                         *)

\* `${v}`: what a template literal inserts for v
Interp(v) ==
    CASE v.t = "string" -> v.s
      [] v.t = "number" -> <<ToString(v.n)>>
      [] v.t = "NaN" -> <<"NaN">>
      [] v.t = "undefined" -> <<"undefined">>
      [] v.t = "boolean" -> <<IF v.b THEN "true" ELSE "false">>
      [] OTHER -> <<"[object Object]">>

\* the numbers whose decimal text the model reads back
NumericRange == (-(MaxAmount * (MaxEntries + 1))) .. (MaxAmount * (MaxEntries + 1))

IsNumericToken(tok) == \E n \in NumericRange : ToString(n) = tok

\* parseFloat(v): the number the leading numeric text of a string denotes
ParseFloat(v) ==
    IF v.t = "number" THEN v
    ELSE IF v.t = "string" /\ Len(v.s) >= 1 /\ IsNumericToken(v.s[1])
         THEN Num(CHOOSE n \in NumericRange : ToString(n) = v.s[1])
         ELSE NaN

RECURSIVE ReplaceAll(_, _, _)
\* text.replace(/c/g, r) on a token sequence
ReplaceAll(s, c, r) ==
    IF s = <<>> THEN <<>>
    ELSE (IF Head(s) = c THEN r ELSE <<Head(s)>>) \o ReplaceAll(Tail(s), c, r)

\* an escaping that substitutes the ampersand last
EscapeXmlAmpersandLast(v) ==
    IF v.t # "string"
    THEN v
    ELSE Str(ReplaceAll(ReplaceAll(ReplaceAll(ReplaceAll(ReplaceAll(v.s,
            "<", <<"&", "lt;">>),
            ">", <<"&", "gt;">>),
            "\"", <<"&", "quot;">>),
            "'", <<"&", "apos;">>),
            "&", <<"&", "amp;">>))

\* typeof text !== 'string' returns the value as it is
EscapeXml(v) ==
    IF v.t # "string"
    THEN v
    ELSE Str(ReplaceAll(ReplaceAll(ReplaceAll(ReplaceAll(ReplaceAll(v.s,
            "&", <<"&", "amp;">>),
            "<", <<"&", "lt;">>),
            ">", <<"&", "gt;">>),
            "\"", <<"&", "quot;">>),
            "'", <<"&", "apos;">>))

Months == <<"Jan", "Feb", "Mar", "Apr", "May", "Jun",
            "Jul", "Aug", "Sep", "Oct", "Nov", "Dec">>

InvalidDate == [t |-> "invalidDate"]

PadStart2(n) == IF n < 10 THEN "0" \o ToString(n) ELSE ToString(n)

\* new Date(v): a Date is copied, a 'DD-Mon-YYYY' string is parsed, anything
\* else gives an invalid date
NewDate(v) ==
    IF v.t = "date" THEN v
    ELSE IF /\ v.t = "string"
            /\ Len(v.s) = 5
            /\ v.s[2] = "-" /\ v.s[4] = "-"
            /\ \E d \in 1..31 : PadStart2(d) = v.s[1]
            /\ \E m \in 1..12 : Months[m] = v.s[3]
            /\ \E y \in 1990..2030 : ToString(y) = v.s[5]
         THEN DateOf(CHOOSE d \in 1..31 : PadStart2(d) = v.s[1],
                     CHOOSE m \in 1..12 : Months[m] = v.s[3],
                     CHOOSE y \in 1990..2030 : ToString(y) = v.s[5])
         ELSE InvalidDate

\* a formatting that writes the day as it is, without padding
FormatDateUnpadded(date) ==
    LET dateObj == NewDate(date)
    IN  IF dateObj.t = "date"
        THEN Str(<<ToString(dateObj.d), "-", Months[dateObj.m], "-", ToString(dateObj.y)>>)
        ELSE Str(<<"NaN", "-", "undefined", "-", "NaN">>)

FormatDate(date) ==
    LET dateObj == NewDate(date)
    IN  IF dateObj.t = "date"
        THEN Str(<<PadStart2(dateObj.d), "-", Months[dateObj.m], "-", ToString(dateObj.y)>>)
        ELSE Str(<<"NaN", "-", "undefined", "-", "NaN">>)

---------------------------------------------------------------------------
(* XML documents                                                           *)

\* An element: its tag, its attributes in order, its child elements in
\* order and, for an element without children, its character data.
Attr(name, value) == [name |-> name, value |-> value]
Element(tag, attrs, kids) == [tag |-> tag, attrs |-> attrs, kids |-> kids, text |-> <<>>]
Leaf(tag, text) == [tag |-> tag, attrs |-> <<>>, kids |-> <<>>, text |-> text]

YesNo(b) == IF b THEN <<"Yes">> ELSE <<"No">>

OldAuditEntryIds ==
    Element("OLDAUDITENTRYIDS.LIST", <<Attr("TYPE", <<"Number">>)>>,
            <<Leaf("OLDAUDITENTRYIDS", <<"-1">>)>>)

TallyMessage(kids) == Element("TALLYMESSAGE", <<Attr("xmlns:UDF", <<"TallyUDF">>)>>, kids)

\* buildVoucherXml: the fixed tags between the second VOUCHERTYPENAME and EFFECTIVEDATE
VoucherFixedMid ==
    <<Leaf("REFERENCE", <<>>),
      Leaf("PERSISTEDVIEW", <<"Accounting Voucher View">>),
      Leaf("VCHGSTCLASS", <<>>),
      Leaf("ENTEREDBY", <<"SDK">>),
      Leaf("DIFFACTUALQTY", <<"No">>),
      Leaf("ISMSTFROMSYNC", <<"No">>),
      Leaf("ASORIGINAL", <<"No">>),
      Leaf("AUDITED", <<"No">>),
      Leaf("FORJOBCOSTING", <<"No">>),
      Leaf("ISOPTIONAL", <<"No">>)>>

\* buildVoucherXml: the fixed flags after EFFECTIVEDATE
VoucherFixedTail ==
    <<Leaf("USEFOREXCISE", <<"No">>),
      Leaf("ISFORJOBWORKIN", <<"No">>),
      Leaf("ALLOWCONSUMPTION", <<"No">>),
      Leaf("USEFORINTEREST", <<"No">>),
      Leaf("USEFORGAINLOSS", <<"No">>),
      Leaf("USEFORGODOWNTRANSFER", <<"No">>),
      Leaf("USEFORCOMPOUND", <<"No">>),
      Leaf("USEFORSERVICETAX", <<"No">>),
      Leaf("ISEXCISEVOUCHER", <<"No">>),
      Leaf("EXCISETAXOVERRIDE", <<"No">>),
      Leaf("USEFORTAXUNITTRANSFER", <<"No">>),
      Leaf("IGNOREPOSVALIDATION", <<"No">>),
      Leaf("EXCISEOPENING", <<"No">>),
      Leaf("USEFORFINALPRODUCTION", <<"No">>),
      Leaf("ISTDSOVERRIDDEN", <<"No">>),
      Leaf("ISTCSOVERRIDDEN", <<"No">>),
      Leaf("ISTDSTCSCASHVCH", <<"No">>),
      Leaf("INCLUDEADVPYMTVCH", <<"No">>),
      Leaf("ISSUBWORKSCONTRACT", <<"No">>),
      Leaf("ISVATOVERRIDDEN", <<"No">>),
      Leaf("IGNOREORIGVCHDATE", <<"No">>),
      Leaf("ISVATPAIDATCUSTOMS", <<"No">>),
      Leaf("ISDECLAREDTOCUSTOMS", <<"No">>),
      Leaf("ISSERVICETAXOVERRIDDEN", <<"No">>),
      Leaf("ISISDVOUCHER", <<"No">>),
      Leaf("ISEXCISEOVERRIDDEN", <<"No">>),
      Leaf("ISEXCISESUPPLYVCH", <<"No">>),
      Leaf("ISGSTOVERRIDDEN", <<"No">>),
      Leaf("GSTNOTEXPORTED", <<"No">>),
      Leaf("IGNOREGSTINVALIDATION", <<"No">>),
      Leaf("ISVATPRINCIPALACCOUNT", <<"No">>),
      Leaf("VCHSTATUSISVCHNUMUSED", <<"No">>),
      Leaf("VCHGSTCLASS", <<>>),
      Leaf("VCHENTRYMODE", <<"Item Invoice">>),
      Leaf("DIFFACTUALQTY", <<"No">>),
      Leaf("ISMSTFROMSYNC", <<"No">>),
      Leaf("ISDELETED", <<"No">>),
      Leaf("ISSECURITYONWHENENTERED", <<"No">>),
      Leaf("ASORIGINAL", <<"No">>),
      Leaf("AUDITED", <<"No">>),
      Leaf("ISCOMMONPARTY", <<"No">>),
      Leaf("FORJOBCOSTING", <<"No">>),
      Leaf("ISOPTIONAL", <<"No">>),
      Leaf("USEFOREXCISE", <<"No">>),
      Leaf("ISFORJOBWORKIN", <<"No">>),
      Leaf("ALLOWCONSUMPTION", <<"No">>),
      Leaf("USEFORINTEREST", <<"No">>),
      Leaf("USEFORGAINLOSS", <<"No">>),
      Leaf("USEFORGODOWNTRANSFER", <<"No">>),
      Leaf("USEFORCOMPOUND", <<"No">>),
      Leaf("USEFORSERVICETAX", <<"No">>),
      Leaf("ISEXCISEVOUCHER", <<"No">>),
      Leaf("EXCISETAXOVERRIDE", <<"No">>),
      Leaf("USEFORTAXUNITTRANSFER", <<"No">>),
      Leaf("IGNOREPOSVALIDATION", <<"No">>),
      Leaf("EXCISEOPENING", <<"No">>),
      Leaf("USEFORFINALPRODUCTION", <<"No">>),
      Leaf("ISTDSOVERRIDDEN", <<"No">>),
      Leaf("ISTCSOVERRIDDEN", <<"No">>),
      Leaf("ISTDSTCSCASHVCH", <<"No">>),
      Leaf("INCLUDEADVPYMTVCH", <<"No">>),
      Leaf("ISSUBWORKSCONTRACT", <<"No">>),
      Leaf("ISVATOVERRIDDEN", <<"No">>),
      Leaf("IGNOREORIGVCHDATE", <<"No">>),
      Leaf("ISVATPAIDATCUSTOMS", <<"No">>),
      Leaf("ISDECLAREDTOCUSTOMS", <<"No">>),
      Leaf("ISSERVICETAXOVERRIDDEN", <<"No">>),
      Leaf("ISISDVOUCHER", <<"No">>),
      Leaf("ISEXCISEOVERRIDDEN", <<"No">>),
      Leaf("ISEXCISESUPPLYVCH", <<"No">>),
      Leaf("ISGSTOVERRIDDEN", <<"No">>),
      Leaf("GSTNOTEXPORTED", <<"No">>),
      Leaf("IGNOREGSTINVALIDATION", <<"No">>),
      Leaf("ISVATPRINCIPALACCOUNT", <<"No">>),
      Leaf("VCHSTATUSISVCHNUMUSED", <<"No">>)>>

\* buildStockItemXml: the fixed tags after BASEUNITS
StockItemFixedTail ==
    <<Leaf("ADDITIONALUNITS", <<>>),
      Leaf("VAT.VATCLASSIFICATIONNAME", <<>>),
      Leaf("VAT.VATASSESSABLEVALUE", <<>>),
      Leaf("GST.APPLICABLE", <<>>),
      Leaf("GST.HSNCODE", <<>>),
      Leaf("GST.TAXABILITY", <<>>),
      Leaf("GST.GSTTYPEOFSUPPLY", <<>>),
      Leaf("ISCOSTCENTRESON", <<"No">>),
      Leaf("ISENTRYTAXAPPLICABLE", <<"No">>),
      Leaf("ISCOSTTRACKINGON", <<"No">>),
      Leaf("ISUPDATINGTARGETID", <<"No">>),
      Leaf("ASORIGINAL", <<"Yes">>),
      Leaf("IGNOREPHYSICALDIFFERENCE", <<"No">>),
      Leaf("IGNORENEGATIVESTOCK", <<"No">>),
      Leaf("TREATSALESASMANUFACTURED", <<"No">>),
      Leaf("TREATPURCHASESASCONSUMED", <<"No">>),
      Leaf("TREATRECEIPTSASREVENUE", <<"No">>),
      Leaf("HASMFGDATE", <<"No">>),
      Leaf("ALLOWUSEOFEXPIREDITEMS", <<"No">>),
      Leaf("IGNOREBATCHES", <<"No">>),
      Leaf("IGNOREGODOWNS", <<"No">>),
      Leaf("CALCONMRP", <<"No">>),
      Leaf("EXCLUDEJRNLFORVALUATION", <<"No">>),
      Leaf("ISMAINTAINEDINNATIONALCURRENCY", <<"No">>),
      Leaf("AUDITED", <<"No">>),
      Leaf("FORPURCHASETAX", <<"No">>),
      Leaf("FORSERVICETAX", <<"No">>),
      Leaf("FORVAT", <<"No">>),
      Leaf("FORROYALTY", <<"No">>),
      Leaf("FOREXCISE", <<"No">>),
      Leaf("FORTDS", <<"No">>),
      Leaf("FORTCS", <<"No">>),
      Leaf("FORPURCHASETAX", <<"No">>),
      Leaf("FORSERVICETAX", <<"No">>),
      Leaf("FORVAT", <<"No">>),
      Leaf("FORROYALTY", <<"No">>)>>

\* buildCompanyXml: the fixed tags after FORMALNAME
CompanyFixedTail ==
    <<Leaf("BOOKSBEGINFROM", <<"01-Apr-2023">>),
      Leaf("ACCOUNTINGBASIS", <<"Accrual">>),
      Leaf("USEFORCOMPANY", <<"Yes">>),
      Leaf("MULTITASKSUPPORT", <<"Yes">>),
      Leaf("ENABLEADVTAX", <<"No">>),
      Leaf("SEPARATELYVIEWEDADVTAX", <<"No">>),
      Leaf("USEFOREXCISE", <<"No">>),
      Leaf("EXCISEREGN", <<>>),
      Leaf("EXCISEREGIONALAREA", <<>>),
      Leaf("EXCISERANGE", <<>>),
      Leaf("EXCISEDIVISION", <<>>),
      Leaf("EXCISECOMMISSIONERATE", <<>>),
      Leaf("USEFORSERVICETAX", <<"No">>),
      Leaf("USEFORPURCHASETAX", <<"No">>),
      Leaf("USETRACKINGNUMBER", <<"No">>),
      Leaf("USEFORPAYROLL", <<"No">>),
      Leaf("USEFORESI", <<"No">>),
      Leaf("USEFORPF", <<"No">>),
      Leaf("USEFORTDS", <<"No">>),
      Leaf("USEFORTCS", <<"No">>),
      Leaf("USEFORVAT", <<"No">>),
      Leaf("USEFORBILLWISERES", <<"No">>),
      Leaf("USEFORCOST", <<"No">>),
      Leaf("USEFORBILLWISE", <<"No">>),
      Leaf("USEFORGST", <<"No">>),
      Leaf("ENABLEGSTCOMPLIANCE", <<"No">>),
      Leaf("GSTNUMBER", <<>>),
      Leaf("GSTREGISTRATIONTYPE", <<>>),
      Leaf("VATAPPLICABLE", <<"No">>)>>

BuildEnvelope(requestType, bodyContent) ==
    Element("ENVELOPE", <<>>,
        <<Element("HEADER", <<>>, <<Leaf("TALLYREQUEST", requestType)>>),
          Element("BODY", <<>>, <<bodyContent>>)>>)

\* one child tag per filter entry, in the mapping's order
FilterXml(filters) ==
    [i \in 1..Len(filters) |->
        Leaf(filters[i].key, Interp(EscapeXml(filters[i].value)))]

BuildExportRequest(reportName, filters) ==
    BuildEnvelope(<<"Export Data">>,
        Element("EXPORTDATA", <<>>,
            <<Element("REQUESTDESC", <<>>,
                <<Leaf("REPORTNAME", Interp(reportName))>> \o FilterXml(filters))>>))

\* tallyCompany is process.env.TALLY_COMPANY at the time of the call
BuildImportRequest(dataXml, options, tallyCompany) ==
    LET reportName == Or(Get(options, "reportName"), Lit("All Masters"))
        companyName == Or(Or(Get(options, "companyName"), tallyCompany), EmptyStr)
        staticVars ==
            IF Truthy(companyName)
            THEN <<Element("STATICVARIABLES", <<>>,
                     <<Leaf("SVCURRENTCOMPANY", Interp(EscapeXml(companyName)))>>)>>
            ELSE <<>>
    IN  BuildEnvelope(<<"Import Data">>,
            Element("IMPORTDATA", <<>>,
                <<Element("REQUESTDESC", <<>>,
                    <<Leaf("REPORTNAME", Interp(reportName))>> \o staticVars),
                  Element("REQUESTDATA", <<>>, <<dataXml>>)>>))

BuildLedgerXml(ledgerData) ==
    LET name == Get(ledgerData, "name")
        parent == Get(ledgerData, "parent")
        alias == Get(ledgerData, "alias")
        openingBalance == Get(ledgerData, "openingBalance")
        openingBalanceXml ==
            IF Truthy(openingBalance)
            THEN <<Leaf("OPENINGBALANCE", Interp(Or(Get(openingBalance, "amount"), Num(0)))),
                   Leaf("ISBILLWISEON", YesNo(Truthy(Get(openingBalance, "isBillWise")))),
                   Leaf("ISCOSTCENTRESON", YesNo(Truthy(Get(openingBalance, "isCostCentre"))))>>
            ELSE <<>>
    IN  TallyMessage(
          <<Element("LEDGER",
              <<Attr("NAME", Interp(EscapeXml(name))), Attr("ACTION", <<"Create">>),
                Attr("RESERVEDNAME", <<>>)>>,
              <<Leaf("NAME", Interp(EscapeXml(name))),
                Leaf("PARENT", Interp(EscapeXml(parent))),
                Leaf("ALIAS", Interp(EscapeXml(Or(alias, EmptyStr)))),
                Leaf("ISBILLWISEON",
                     YesNo(Truthy(openingBalance) /\ Truthy(Get(openingBalance, "isBillWise")))),
                Leaf("AFFECTSSTOCK", <<"No">>),
                Leaf("USEFORVAT", <<"No">>)>> \o openingBalanceXml)>>)

LedgerEntryXml(entry) ==
    Element("LEDGERENTRIES.LIST", <<>>,
        <<OldAuditEntryIds,
          Leaf("LEDGERNAME", Interp(EscapeXml(Get(entry, "ledgerName")))),
          Leaf("ISDEEMEDPOSITIVE", YesNo(GreaterThan(Get(entry, "amount"), 0))),
          Leaf("AMOUNT", Interp(Abs(Get(entry, "amount")))),
          Element("BILLALLOCATIONS.LIST", <<>>,
              <<Leaf("NAME", Interp(EscapeXml(Or(Get(entry, "billName"), EmptyStr)))),
                Leaf("BILLTYPE", Interp(Or(Get(entry, "billType"), Lit("New Ref")))),
                Leaf("AMOUNT", Interp(Abs(Get(entry, "amount"))))>>)>>)

BuildVoucherXml(voucherData) ==
    LET voucherType == Get(voucherData, "voucherType")
        date == Get(voucherData, "date")
        ledgerEntries == Get(voucherData, "ledgerEntries")
        narration == Get(voucherData, "narration")
        voucherNumber == Get(voucherData, "voucherNumber")
        ledgerEntriesXml ==
            [i \in 1..Len(ledgerEntries.a) |-> LedgerEntryXml(ledgerEntries.a[i])]
    IN  TallyMessage(
          <<Element("VOUCHER",
              <<Attr("REMOTEID", <<>>), Attr("VCHKEY", <<>>),
                Attr("VCHTYPE", Interp(EscapeXml(voucherType))),
                Attr("ACTION", <<"Create">>),
                Attr("OBJVIEW", <<"Accounting Voucher View">>)>>,
              <<OldAuditEntryIds,
                Leaf("DATE", Interp(FormatDate(date))),
                Leaf("VOUCHERTYPENAME", Interp(EscapeXml(voucherType))),
                Leaf("VOUCHERNUMBER", Interp(EscapeXml(Or(voucherNumber, EmptyStr)))),
                Leaf("NARRATION", Interp(EscapeXml(Or(narration, EmptyStr)))),
                Leaf("PARTYLEDGERNAME", <<>>),
                Leaf("VOUCHERTYPENAME", Interp(EscapeXml(voucherType)))>>
              \o VoucherFixedMid
              \o <<Leaf("EFFECTIVEDATE", Interp(FormatDate(date)))>>
              \o VoucherFixedTail
              \o ledgerEntriesXml)>>)

BuildStockItemXml(stockData) ==
    LET name == Get(stockData, "name")
        parent == Get(stockData, "parent")
        baseUnits == Get(stockData, "baseUnits")
        openingBalance == Get(stockData, "openingBalance")
        alias == Get(stockData, "alias")
        openingBalanceXml ==
            IF Truthy(openingBalance)
            THEN <<Leaf("OPENINGBALANCE", Interp(Or(Get(openingBalance, "quantity"), Num(0)))),
                   Leaf("OPENINGRATE", Interp(Or(Get(openingBalance, "rate"), Num(0)))),
                   Leaf("OPENINGVALUE", Interp(Or(Get(openingBalance, "value"), Num(0))))>>
            ELSE <<>>
    IN  TallyMessage(
          <<Element("STOCKITEM",
              <<Attr("NAME", Interp(EscapeXml(name))), Attr("RESERVEDNAME", <<>>)>>,
              <<OldAuditEntryIds,
                Leaf("GUID", <<>>),
                Leaf("PARENT", Interp(EscapeXml(parent))),
                Leaf("ALIAS", Interp(EscapeXml(Or(alias, EmptyStr)))),
                Leaf("BASEUNITS", Interp(EscapeXml(baseUnits)))>>
              \o StockItemFixedTail
              \o openingBalanceXml)>>)

BuildCompanyXml(companyData) ==
    LET name == Get(companyData, "name")
        mailingName == Get(companyData, "mailingName")
    IN  TallyMessage(
          <<Element("COMPANY",
              <<Attr("NAME", Interp(EscapeXml(name))), Attr("RESERVEDNAME", <<>>)>>,
              <<Element("REMOTECMPINFO.LIST", <<>>, <<>>),
                Leaf("MAILINGNAME", Interp(EscapeXml(Or(mailingName, name)))),
                Leaf("ADDRESS", Interp(EscapeXml(Or(Get(companyData, "address"), EmptyStr)))),
                Leaf("STATE", Interp(EscapeXml(Or(Get(companyData, "state"), EmptyStr)))),
                Leaf("COUNTRY", Interp(EscapeXml(Or(Get(companyData, "country"), EmptyStr)))),
                Leaf("PINCODE", Interp(EscapeXml(Or(Get(companyData, "pincode"), EmptyStr)))),
                Leaf("CURRENCYSYMBOL", <<"Rs.">>),
                Leaf("FORMALNAME", Interp(EscapeXml(name)))>>
              \o CompanyFixedTail)>>)

BuildGroupXml(groupData) ==
    LET name == Get(groupData, "name")
        parent == Get(groupData, "parent")
    IN  TallyMessage(
          <<Element("GROUP",
              <<Attr("NAME", Interp(EscapeXml(name))), Attr("ACTION", <<"Create">>)>>,
              <<Element("NAME.LIST", <<>>, <<Leaf("NAME", Interp(EscapeXml(name)))>>),
                Leaf("PARENT", Interp(EscapeXml(parent)))>>)>>)

BuildCollectionRequest(collection, filters) ==
    BuildEnvelope(<<"Export Data">>,
        Element("EXPORTDATA", <<>>,
            <<Element("REQUESTDESC", <<>>,
                <<Leaf("REPORTNAME", <<"List of ">> \o Interp(collection)),
                  Element("STATICVARIABLES", <<>>,
                      <<Leaf("SVEXPORTFORMAT", <<"$$SysName:XML">>)>> \o FilterXml(filters))>>)>>))

RECURSIVE Join(_)
\* fetchFields.join(',')
Join(fields) ==
    IF fields = <<>> THEN <<>>
    ELSE IF Len(fields) = 1 THEN <<fields[1]>>
    ELSE <<fields[1], ",">> \o Join(Tail(fields))

BuildTDLCollectionRequest(collectionName, type, fetchFields) ==
    LET id == Interp(EscapeXml(collectionName))
        collType == Interp(EscapeXml(type))
        fetchLine == IF Len(fetchFields) > 0 THEN <<Leaf("FETCH", Join(fetchFields))>> ELSE <<>>
    IN  Element("ENVELOPE", <<>>,
            <<Element("HEADER", <<>>,
                <<Leaf("VERSION", <<"1">>), Leaf("TALLYREQUEST", <<"Export Data">>),
                  Leaf("TYPE", <<"Collection">>), Leaf("ID", id)>>),
              Element("BODY", <<>>,
                <<Element("DESC", <<>>,
                    <<Element("TDL", <<>>,
                        <<Element("TDLMESSAGE", <<>>,
                            <<Element("COLLECTION",
                                <<Attr("NAME", id), Attr("ISINITIALIZE", <<"Yes">>)>>,
                                <<Leaf("TYPE", collType)>> \o fetchLine)>>)>>)>>)>>)>>)

\* updateXml = xml.replace('ACTION="Create"', 'ACTION="Alter"') on the entity
\* element of a TALLYMESSAGE: its first ACTION attribute holding Create
ReplaceCreateByAlter(message) ==
    LET entity == message.kids[1]
        hits == {i \in 1..Len(entity.attrs) :
                    entity.attrs[i] = Attr("ACTION", <<"Create">>)}
        altered ==
            [i \in 1..Len(entity.attrs) |->
                IF hits # {} /\ i = CHOOSE j \in hits : \A k \in hits : j <= k
                THEN Attr("ACTION", <<"Alter">>)
                ELSE entity.attrs[i]]
    IN  [message EXCEPT !.kids = <<[entity EXCEPT !.attrs = altered]>>]

---------------------------------------------------------------------------
(* TallyConnector                                                          *)

\* What the remote end does with one request: the HTTP exchange fails
\* (kind "transport", with what axios reports), the body it returns is not
\* well-formed XML (kind "unparsable"), or the body parses to a tree.
TransportFailure(code) == [kind |-> "transport", code |-> code]
Unparsable == [kind |-> "unparsable"]
Xml(tree) == [kind |-> "xml", tree |-> tree]

TransportCodes == {"ECONNREFUSED", "ETIMEDOUT", "response", "request", "other"}

BaseUrl == "http://localhost:9000"

\* a settled promise: resolved with data, or rejected with an Error message
Resolved(data) == [ok |-> TRUE, data |-> data, message |-> <<>>]
Rejected(message) == [ok |-> FALSE, data |-> Undefined, message |-> message]

\* an error handler with one message for every failure of the exchange
HandleErrorGeneric(code) == <<"Request failed: ", "socket hang up">>

HandleError(code) ==
    CASE code = "ECONNREFUSED" ->
            <<"Cannot connect to TallyPrime at ", BaseUrl,
              ". Please ensure TallyPrime is running and the port is correct.">>
      [] code = "ETIMEDOUT" ->
            <<"Request timed out after ", "30000",
              "ms. TallyPrime may be busy or unresponsive.">>
      [] code = "response" ->
            <<"TallyPrime server error: ", "500", " - ", "Internal Server Error">>
      [] code = "request" ->
            <<"No response received from TallyPrime. Please check if the service is running.">>
      [] OTHER -> <<"Request failed: ", "socket hang up">>

ParseResponse(reply) ==
    IF reply.kind = "unparsable"
    THEN Rejected(<<"XML parsing error: ", "Non-whitespace before first tag.">>)
    ELSE LET result == reply.tree
             envelope == Or(Get(result, "ENVELOPE"), result)
             body == Or(Get(envelope, "BODY"), envelope)
         IN  IF Truthy(Get(body, "ERROR")) \/ Truthy(Get(body, "LINEERROR"))
             THEN Rejected(<<"Tally error: ">>
                           \o Interp(Or(Get(body, "ERROR"), Get(body, "LINEERROR"))))
             ELSE Resolved(result)

SendRequest(reply) ==
    LET response ==
            IF reply.kind = "transport"
            THEN Rejected(HandleError(reply.code))
            ELSE ParseResponse(reply)
    IN  IF response.ok
        THEN response
        ELSE Rejected(<<"TallyPrime request failed: ">> \o response.message)

---------------------------------------------------------------------------
(* What a service call leaves behind                                       *)

Returned(value) == [status |-> "returned", message |-> <<>>, value |-> value]
Raised(message) == [status |-> "raised", message |-> message, value |-> Undefined]
Pending == [status |-> "pending", message |-> <<>>, value |-> Undefined]

\* the run of a call: its outcome, the payloads built, the requests sent
Run(result, builtXml, sentXml) == [outcome |-> result, built |-> builtXml, sent |-> sentXml]

---------------------------------------------------------------------------
(* The connector's configuration                                           *)

\* the fields of a configuration object the connector reads
ConfigFields == {"host", "port", "timeout"}

\* this.client.defaults after the assignments of the constructor or updateConfig
Client(baseUrl, timeout) == [baseURL |-> baseUrl, timeout |-> timeout]

\* `http://${host}:${port}`
BaseUrlOf(host, port) == Str(<<"http://">> \o Interp(host) \o <<":">> \o Interp(port))

\* new TallyConnector(config): the parameter defaults to {} when it is undefined
TallyConnector(config) ==
    LET given == IF config = Undefined THEN Obj(<<>>) ELSE config
        host == Or(Get(given, "host"), Lit("localhost"))
        port == Or(Get(given, "port"), Num(9000))
        timeout == Or(Get(given, "timeout"), Num(30000))
        baseUrl == BaseUrlOf(host, port)
    IN  [host |-> host, port |-> port, timeout |-> timeout, baseUrl |-> baseUrl,
         client |-> Client(baseUrl, timeout)]

\* getConnectionInfo()
GetConnectionInfo(this) ==
    Obj([host |-> this.host, port |-> this.port,
         baseUrl |-> this.baseUrl, timeout |-> this.timeout])

\* an updateConfig that rebuilds baseUrl and leaves the axios client as it was
UpdateConfigStaleClient(this, config) ==
    IF config = Undefined
    THEN [this |-> this,
          outcome |-> Raised(<<"Cannot read properties of undefined (reading 'host')">>)]
    ELSE LET host == IF Truthy(Get(config, "host")) THEN Get(config, "host") ELSE this.host
             port == IF Truthy(Get(config, "port")) THEN Get(config, "port") ELSE this.port
             timeout == IF Truthy(Get(config, "timeout")) THEN Get(config, "timeout")
                        ELSE this.timeout
         IN  [this |-> [host |-> host, port |-> port, timeout |-> timeout,
                        baseUrl |-> BaseUrlOf(host, port),
                        client |-> this.client],
              outcome |-> Returned(Undefined)]

\* updateConfig(config): reading config.host of undefined is a TypeError raised
\* before any assignment; otherwise each truthy field is assigned, then baseUrl
\* and the client's defaults
UpdateConfig(this, config) ==
    IF config = Undefined
    THEN [this |-> this,
          outcome |-> Raised(<<"Cannot read properties of undefined (reading 'host')">>)]
    ELSE LET host == IF Truthy(Get(config, "host")) THEN Get(config, "host") ELSE this.host
             port == IF Truthy(Get(config, "port")) THEN Get(config, "port") ELSE this.port
             timeout == IF Truthy(Get(config, "timeout")) THEN Get(config, "timeout")
                        ELSE this.timeout
             baseUrl == BaseUrlOf(host, port)
         IN  [this |-> [host |-> host, port |-> port, timeout |-> timeout,
                        baseUrl |-> baseUrl,
                        client |-> Client(baseUrl, timeout)],
              outcome |-> Returned(Undefined)]

\* const name = value; body: the value is computed once and body reads it
With(value, Body(_)) == CHOOSE result \in {Body(name) : name \in {value}} : TRUE

NoOptions == Obj(<<>>)

Filter(key, value) == [key |-> key, value |-> value]

---------------------------------------------------------------------------
(* VoucherService                                                          *)

\* 0.01, in hundredths
Tolerance == 1

RECURSIVE SumAmounts(_)
\* ledgerEntries.reduce((sum, entry) => sum + entry.amount, 0)
SumAmounts(entries) ==
    IF entries = <<>> THEN Num(0)
    ELSE Add(SumAmounts(SubSeq(entries, 1, Len(entries) - 1)),
             Get(entries[Len(entries)], "amount"))

\* a balance check without tolerance
CheckBalanceExact(entries) ==
    IF GreaterThan(Abs(SumAmounts(entries)), 0)
    THEN <<"Voucher debits and credits must balance">>
    ELSE <<>>

\* the debit/credit balance check: the message thrown, <<>> when none is
CheckBalance(entries) ==
    IF GreaterThan(Abs(SumAmounts(entries)), Tolerance)
    THEN <<"Voucher debits and credits must balance">>
    ELSE <<>>

\* an entry check that looks at the ledger name only
CheckEntryNameOnly(entry) ==
    IF ~Truthy(Get(entry, "ledgerName"))
    THEN <<"Each ledger entry must have a ledger name">>
    ELSE <<>>

\* the check of one ledger entry: the message thrown, <<>> when none is
CheckEntry(entry) ==
    IF ~Truthy(Get(entry, "ledgerName"))
    THEN <<"Each ledger entry must have a ledger name">>
    ELSE IF ~TypeofNumber(Get(entry, "amount")) \/ Get(entry, "amount") = Num(0)
         THEN <<"Each ledger entry must have a non-zero amount">>
         ELSE <<>>

\* a count check that lets a single entry through
CheckEntryCountOne(entries) ==
    IF Len(entries) < 1
    THEN <<"At least two ledger entries are required for a voucher">>
    ELSE <<>>

\* the check of the entries' number: the message thrown, <<>> when none is
CheckEntryCount(entries) ==
    IF Len(entries) < 2
    THEN <<"At least two ledger entries are required for a voucher">>
    ELSE <<>>

\* _validateVoucherData: the message of the Error it throws, <<>> when it returns
ValidateVoucherData(voucherData) ==
    LET ledgerEntries == Get(voucherData, "ledgerEntries")
    IN  IF ~Truthy(Get(voucherData, "voucherType"))
        THEN <<"Voucher type is required">>
        ELSE IF ~Truthy(Get(voucherData, "date"))
        THEN <<"Voucher date is required">>
        ELSE IF ~Truthy(ledgerEntries) \/ ~IsArray(ledgerEntries)
        THEN <<"Ledger entries are required and must be an array">>
        ELSE IF CheckEntryCount(ledgerEntries.a) # <<>>
        THEN CheckEntryCount(ledgerEntries.a)
        ELSE LET bad == {i \in 1..Len(ledgerEntries.a) :
                            CheckEntry(ledgerEntries.a[i]) # <<>>}
             IN  IF bad # {}
                 THEN CheckEntry(ledgerEntries.a[CHOOSE i \in bad : \A j \in bad : i <= j])
                 ELSE CheckBalance(ledgerEntries.a)

\* the envelope body every interpreter descends through
ResponseBody(responseData) ==
    LET envelope == Or(Get(responseData, "ENVELOPE"), responseData)
    IN  Or(Get(envelope, "BODY"), envelope)

HasRequestData(body) ==
    Truthy(Get(body, "EXPORTDATA")) /\ Truthy(Get(Get(body, "EXPORTDATA"), "REQUESTDATA"))

\* body.EXPORTDATA.REQUESTDATA.TALLYMESSAGE
TallyMessageOf(body) == Get(Get(Get(body, "EXPORTDATA"), "REQUESTDATA"), "TALLYMESSAGE")

\* Array.isArray(x) ? x : [x]
AsArray(x) == IF IsArray(x) THEN x.a ELSE <<x>>

\* an entry interpreter that ignores the ISDEEMEDPOSITIVE flag
ParseLedgerEntryUnsigned(entry) ==
    Obj([ledgerName |-> Or(Get(entry, "LEDGERNAME"), EmptyStr),
         amount |-> Or(ParseFloat(Get(entry, "AMOUNT")), Num(0)),
         billName |-> EmptyStr,
         billType |-> EmptyStr])

ParseLedgerEntry(entry) ==
    LET bill == Get(entry, "BILLALLOCATIONS.LIST")
    IN  Obj([ledgerName |-> Or(Get(entry, "LEDGERNAME"), EmptyStr),
             amount |-> Or(Times(ParseFloat(Get(entry, "AMOUNT")),
                                 IF Get(entry, "ISDEEMEDPOSITIVE") = Lit("No") THEN -1 ELSE 1),
                           Num(0)),
             billName |-> IF Truthy(bill) THEN Get(bill, "NAME") ELSE EmptyStr,
             billType |-> IF Truthy(bill) THEN Get(bill, "BILLTYPE") ELSE EmptyStr])

ParseLedgerEntries(ledgerEntriesData) ==
    LET entriesArray == AsArray(ledgerEntriesData)
    IN  Arr([i \in 1..Len(entriesArray) |-> ParseLedgerEntry(entriesArray[i])])

ParseVoucherResponse(responseData) ==
    LET body == ResponseBody(responseData)
    IN  IF HasRequestData(body)
        THEN LET voucherData == Or(TallyMessageOf(body), Obj(<<>>))
             IN  Obj([voucherNumber |-> Or(Get(voucherData, "VOUCHERNUMBER"), EmptyStr),
                      voucherType |-> Or(Get(voucherData, "VOUCHERTYPENAME"), EmptyStr),
                      date |-> Or(Get(voucherData, "DATE"), EmptyStr),
                      narration |-> Or(Get(voucherData, "NARRATION"), EmptyStr),
                      ledgerEntries |->
                          ParseLedgerEntries(Or(Get(voucherData, "LEDGERENTRIES.LIST"),
                                                Arr(<<>>)))])
        ELSE Obj(<<>>)

\* replies[i] is what the remote does with the i-th request of the call
CreateVoucher(voucherData, replies, tallyCompany) ==
    With(ValidateVoucherData(voucherData), LAMBDA thrown :
    IF thrown # <<>>
    THEN Run(Raised(thrown), <<>>, <<>>)
    ELSE With(BuildVoucherXml(voucherData), LAMBDA voucherXml :
         With(SendRequest(replies[1]), LAMBDA response :
         Run(IF response.ok
             THEN Returned(Obj([success |-> Bool(TRUE),
                                message |-> Lit("Voucher created successfully"),
                                data |-> response.data,
                                voucherNumber |-> Get(voucherData, "voucherNumber"),
                                voucherType |-> Get(voucherData, "voucherType")]))
             ELSE Raised(<<"Failed to create voucher: ">> \o response.message),
             <<voucherXml>>,
             <<BuildImportRequest(voucherXml, NoOptions, tallyCompany)>>))))

FetchVoucher(voucherNumber, voucherType, options, replies) ==
    IF ~Truthy(voucherNumber) \/ ~Truthy(voucherType)
    THEN Run(Raised(<<"Voucher number and type are required">>), <<>>, <<>>)
    ELSE LET filters ==
                 <<Filter("VOUCHERNUMBER", voucherNumber), Filter("VOUCHERTYPE", voucherType)>>
                 \o (IF Truthy(Get(options, "date"))
                     THEN <<Filter("DATE", Get(options, "date"))>> ELSE <<>>)
             exportXml == BuildExportRequest(Lit("Voucher Details"), filters)
             response == SendRequest(replies[1])
         IN  Run(IF response.ok
                 THEN Returned(Obj([success |-> Bool(TRUE),
                                    data |-> ParseVoucherResponse(response.data),
                                    voucherNumber |-> voucherNumber,
                                    voucherType |-> voucherType]))
                 ELSE Raised(<<"Failed to fetch voucher: ">> \o response.message),
                 <<>>, <<exportXml>>)

\* an update that validates the merged voucher but for its balance
UpdateVoucherUnvalidated(voucherNumber, voucherType, updates, replies, tallyCompany) ==
    IF ~Truthy(voucherNumber) \/ ~Truthy(voucherType)
    THEN Run(Raised(<<"Voucher number and type are required">>), <<>>, <<>>)
    ELSE With(FetchVoucher(voucherNumber, voucherType, NoOptions, replies),
         LAMBDA currentVoucher :
         IF currentVoucher.outcome.status = "raised"
         THEN Run(Raised(<<"Failed to update voucher: ">> \o currentVoucher.outcome.message),
                  <<>>, currentVoucher.sent)
         ELSE With(Get(currentVoucher.outcome.value, "data"), LAMBDA current :
              With(Obj([voucherType |-> voucherType,
                        voucherNumber |-> voucherNumber,
                        date |-> Or(Get(updates, "date"), Get(current, "date")),
                        narration |-> Or(Get(updates, "narration"), Get(current, "narration")),
                        ledgerEntries |-> Or(Get(updates, "ledgerEntries"),
                                             Get(current, "ledgerEntries"))]),
              LAMBDA updatedVoucherData :
              With(IF IsArray(Get(updatedVoucherData, "ledgerEntries"))
                      /\ ValidateVoucherData(updatedVoucherData)
                             = CheckBalance(Get(updatedVoucherData, "ledgerEntries").a)
                   THEN <<>>
                   ELSE ValidateVoucherData(updatedVoucherData), LAMBDA thrown :
              IF thrown # <<>>
              THEN Run(Raised(<<"Failed to update voucher: ">> \o thrown),
                       <<>>, currentVoucher.sent)
              ELSE With(BuildVoucherXml(updatedVoucherData), LAMBDA voucherXml :
                   With(SendRequest(replies[2]), LAMBDA response :
                   Run(IF response.ok
                       THEN Returned(Obj([success |-> Bool(TRUE),
                                          message |-> Str(<<"Voucher '">> \o Interp(voucherNumber)
                                                          \o <<"' updated successfully">>),
                                          data |-> response.data,
                                          voucherNumber |-> voucherNumber,
                                          voucherType |-> voucherType]))
                       ELSE Raised(<<"Failed to update voucher: ">> \o response.message),
                       <<voucherXml>>,
                       currentVoucher.sent
                       \o <<BuildImportRequest(ReplaceCreateByAlter(voucherXml), NoOptions,
                                               tallyCompany)>>)))))))

UpdateVoucher(voucherNumber, voucherType, updates, replies, tallyCompany) ==
    IF ~Truthy(voucherNumber) \/ ~Truthy(voucherType)
    THEN Run(Raised(<<"Voucher number and type are required">>), <<>>, <<>>)
    ELSE With(FetchVoucher(voucherNumber, voucherType, NoOptions, replies),
         LAMBDA currentVoucher :
         IF currentVoucher.outcome.status = "raised"
         THEN Run(Raised(<<"Failed to update voucher: ">> \o currentVoucher.outcome.message),
                  <<>>, currentVoucher.sent)
         ELSE With(Get(currentVoucher.outcome.value, "data"), LAMBDA current :
              With(Obj([voucherType |-> voucherType,
                        voucherNumber |-> voucherNumber,
                        date |-> Or(Get(updates, "date"), Get(current, "date")),
                        narration |-> Or(Get(updates, "narration"), Get(current, "narration")),
                        ledgerEntries |-> Or(Get(updates, "ledgerEntries"),
                                             Get(current, "ledgerEntries"))]),
              LAMBDA updatedVoucherData :
              With(ValidateVoucherData(updatedVoucherData), LAMBDA thrown :
              IF thrown # <<>>
              THEN Run(Raised(<<"Failed to update voucher: ">> \o thrown),
                       <<>>, currentVoucher.sent)
              ELSE With(BuildVoucherXml(updatedVoucherData), LAMBDA voucherXml :
                   With(SendRequest(replies[2]), LAMBDA response :
                   Run(IF response.ok
                       THEN Returned(Obj([success |-> Bool(TRUE),
                                          message |-> Str(<<"Voucher '">> \o Interp(voucherNumber)
                                                          \o <<"' updated successfully">>),
                                          data |-> response.data,
                                          voucherNumber |-> voucherNumber,
                                          voucherType |-> voucherType]))
                       ELSE Raised(<<"Failed to update voucher: ">> \o response.message),
                       <<voucherXml>>,
                       currentVoucher.sent
                       \o <<BuildImportRequest(ReplaceCreateByAlter(voucherXml), NoOptions,
                                               tallyCompany)>>)))))))

---------------------------------------------------------------------------
(* LedgerService                                                           *)

\* a && b
AndAlso(a, b) == IF Truthy(a) THEN b ELSE a

\* the date the services use for "today"
Today == DateOf(3, 11, 2026)

\* s.toLowerCase() on the letters the model's names use
LowerToken(tok) ==
    CASE tok = "A" -> "a"
      [] tok = "B" -> "b"
      [] OTHER -> tok

ToLowerCase(s) == [i \in 1..Len(s) |-> LowerToken(s[i])]

\* s.includes(term)
Includes(s, term) ==
    \E i \in 1..(Len(s) + 1) :
        i + Len(term) - 1 <= Len(s) /\ SubSeq(s, i, i + Len(term) - 1) = term

HasTruthyName(x) == Truthy(Get(x, "name"))

LedgerImportOptions(tallyCompany) ==
    Obj([reportName |-> Lit("All Masters"), companyName |-> tallyCompany])

\* a ledger interpreter that never reads the ALIAS tag
ParseLedgerResponseNoAlias(responseData) ==
    LET body == ResponseBody(responseData)
    IN  IF HasRequestData(body)
        THEN LET ledgerData == Or(TallyMessageOf(body), Obj(<<>>))
             IN  Obj([name |-> Or(Get(ledgerData, "NAME"), EmptyStr),
                      parent |-> Or(Get(ledgerData, "PARENT"), EmptyStr),
                      alias |-> EmptyStr,
                      openingBalance |->
                          Obj([amount |-> Or(Get(ledgerData, "OPENINGBALANCE"), Num(0)),
                               isBillWise |-> Bool(Get(ledgerData, "ISBILLWISEON") = Lit("Yes")),
                               isCostCentre |->
                                   Bool(Get(ledgerData, "ISCOSTCENTRESON") = Lit("Yes"))])])
        ELSE Obj(<<>>)

ParseLedgerResponse(responseData) ==
    LET body == ResponseBody(responseData)
    IN  IF HasRequestData(body)
        THEN LET ledgerData == Or(TallyMessageOf(body), Obj(<<>>))
             IN  Obj([name |-> Or(Get(ledgerData, "NAME"), EmptyStr),
                      parent |-> Or(Get(ledgerData, "PARENT"), EmptyStr),
                      alias |-> Or(Get(ledgerData, "ALIAS"), EmptyStr),
                      openingBalance |->
                          Obj([amount |-> Or(Get(ledgerData, "OPENINGBALANCE"), Num(0)),
                               isBillWise |-> Bool(Get(ledgerData, "ISBILLWISEON") = Lit("Yes")),
                               isCostCentre |->
                                   Bool(Get(ledgerData, "ISCOSTCENTRESON") = Lit("Yes"))])])
        ELSE Obj(<<>>)

LedgerListNode(n) ==
    LET node == Or(n, Obj(<<>>))
    IN  Obj([name |-> Or(Or(Or(Get(node, "NAME"), Get(node, "LedgerName")),
                            Get(node, "$NAME")), EmptyStr),
             parent |-> Or(Or(Get(node, "PARENT"), Get(node, "Parent")), EmptyStr),
             alias |-> Or(Or(Get(node, "ALIAS"), Get(node, "Alias")), EmptyStr),
             isActive |-> IF Truthy(Get(node, "ISACTIVE"))
                          THEN Bool(Get(node, "ISACTIVE") # Lit("No"))
                          ELSE Bool(TRUE)])

ParseLedgerListResponse(responseData) ==
    LET body == ResponseBody(responseData)
        tdlNodes == Or(Or(Get(body, "DESC"), Get(body, "COLLECTION")), Get(body, "TALLYMESSAGE"))
        exportData == AndAlso(AndAlso(Get(body, "EXPORTDATA"),
                                      Get(Get(body, "EXPORTDATA"), "REQUESTDATA")),
                              TallyMessageOf(body))
        nodes == Or(Or(exportData, tdlNodes), Arr(<<>>))
        arr == AsArray(nodes)
    IN  Arr(SelectSeq([i \in 1..Len(arr) |-> LedgerListNode(arr[i])], HasTruthyName))

ParseLedgerBalanceResponse(responseData) ==
    LET body == ResponseBody(responseData)
    IN  IF HasRequestData(body)
        THEN LET balanceData == Or(TallyMessageOf(body), Obj(<<>>))
             IN  Obj([openingBalance |-> Or(ParseFloat(Get(balanceData, "OPENINGBALANCE")), Num(0)),
                      closingBalance |-> Or(ParseFloat(Get(balanceData, "CLOSINGBALANCE")), Num(0)),
                      debitTotal |-> Or(ParseFloat(Get(balanceData, "DEBITTOTAL")), Num(0)),
                      creditTotal |-> Or(ParseFloat(Get(balanceData, "CREDITTOTAL")), Num(0))])
        ELSE Obj([openingBalance |-> Num(0), closingBalance |-> Num(0),
                  debitTotal |-> Num(0), creditTotal |-> Num(0)])

ParseLedgerTransactionsResponse(responseData) ==
    LET body == ResponseBody(responseData)
    IN  IF HasRequestData(body)
        THEN Arr(AsArray(Or(TallyMessageOf(body), Arr(<<>>))))
        ELSE Arr(<<>>)

CreateLedger(ledgerData, replies, tallyCompany) ==
    IF ~Truthy(Get(ledgerData, "name"))
    THEN Run(Raised(<<"Ledger name is required">>), <<>>, <<>>)
    ELSE IF ~Truthy(Get(ledgerData, "parent"))
    THEN Run(Raised(<<"Parent group is required">>), <<>>, <<>>)
    ELSE LET ledgerXml == BuildLedgerXml(ledgerData)
             importXml == BuildImportRequest(ledgerXml, LedgerImportOptions(tallyCompany),
                                             tallyCompany)
             response == SendRequest(replies[1])
         IN  Run(IF response.ok
                 THEN Returned(Obj([success |-> Bool(TRUE),
                                    message |-> Str(<<"Ledger '">> \o Interp(Get(ledgerData, "name"))
                                                    \o <<"' created successfully">>),
                                    data |-> response.data,
                                    ledgerName |-> Get(ledgerData, "name")]))
                 ELSE Raised(<<"Failed to create ledger: ">> \o response.message),
                 <<ledgerXml>>, <<importXml>>)

FetchLedger(ledgerName, options, replies) ==
    IF ~Truthy(ledgerName)
    THEN Run(Raised(<<"Ledger name is required">>), <<>>, <<>>)
    ELSE LET filters ==
                 <<Filter("LEDGERNAME", ledgerName)>>
                 \o (IF Truthy(Get(options, "fromDate"))
                     THEN <<Filter("FROMDATE", Get(options, "fromDate"))>> ELSE <<>>)
                 \o (IF Truthy(Get(options, "toDate"))
                     THEN <<Filter("TODATE", Get(options, "toDate"))>> ELSE <<>>)
             exportXml == BuildExportRequest(Lit("Ledger Details"), filters)
             response == SendRequest(replies[1])
         IN  Run(IF response.ok
                 THEN Returned(Obj([success |-> Bool(TRUE),
                                    data |-> ParseLedgerResponse(response.data),
                                    ledgerName |-> ledgerName]))
                 ELSE Raised(<<"Failed to fetch ledger: ">> \o response.message),
                 <<>>, <<exportXml>>)

\* an update that imports whatever became of its fetch
UpdateLedgerBlind(ledgerName, updates, replies, tallyCompany) ==
    IF ~Truthy(ledgerName)
    THEN Run(Raised(<<"Ledger name is required">>), <<>>, <<>>)
    ELSE With(FetchLedger(ledgerName, NoOptions, replies), LAMBDA currentLedger :
         IF FALSE
         THEN Run(Raised(<<"Failed to update ledger: ">> \o currentLedger.outcome.message),
                  <<>>, currentLedger.sent)
         ELSE With(Get(currentLedger.outcome.value, "data"), LAMBDA current :
              With(BuildLedgerXml(
                       Obj([name |-> ledgerName,
                            parent |-> Or(Get(updates, "parent"), Get(current, "parent")),
                            alias |-> Or(Get(updates, "alias"), Get(current, "alias")),
                            openingBalance |-> Or(Get(updates, "openingBalance"),
                                                  Get(current, "openingBalance"))])),
              LAMBDA ledgerXml :
              With(SendRequest(replies[2]), LAMBDA response :
              Run(IF response.ok
                  THEN Returned(Obj([success |-> Bool(TRUE),
                                     message |-> Str(<<"Ledger '">> \o Interp(ledgerName)
                                                     \o <<"' updated successfully">>),
                                     data |-> response.data,
                                     ledgerName |-> ledgerName]))
                  ELSE Raised(<<"Failed to update ledger: ">> \o response.message),
                  <<ledgerXml>>,
                  currentLedger.sent
                  \o <<BuildImportRequest(ReplaceCreateByAlter(ledgerXml),
                                          LedgerImportOptions(tallyCompany),
                                          tallyCompany)>>)))))

UpdateLedger(ledgerName, updates, replies, tallyCompany) ==
    IF ~Truthy(ledgerName)
    THEN Run(Raised(<<"Ledger name is required">>), <<>>, <<>>)
    ELSE With(FetchLedger(ledgerName, NoOptions, replies), LAMBDA currentLedger :
         IF currentLedger.outcome.status = "raised"
         THEN Run(Raised(<<"Failed to update ledger: ">> \o currentLedger.outcome.message),
                  <<>>, currentLedger.sent)
         ELSE With(Get(currentLedger.outcome.value, "data"), LAMBDA current :
              With(BuildLedgerXml(
                       Obj([name |-> ledgerName,
                            parent |-> Or(Get(updates, "parent"), Get(current, "parent")),
                            alias |-> Or(Get(updates, "alias"), Get(current, "alias")),
                            openingBalance |-> Or(Get(updates, "openingBalance"),
                                                  Get(current, "openingBalance"))])),
              LAMBDA ledgerXml :
              With(SendRequest(replies[2]), LAMBDA response :
              Run(IF response.ok
                  THEN Returned(Obj([success |-> Bool(TRUE),
                                     message |-> Str(<<"Ledger '">> \o Interp(ledgerName)
                                                     \o <<"' updated successfully">>),
                                     data |-> response.data,
                                     ledgerName |-> ledgerName]))
                  ELSE Raised(<<"Failed to update ledger: ">> \o response.message),
                  <<ledgerXml>>,
                  currentLedger.sent
                  \o <<BuildImportRequest(ReplaceCreateByAlter(ledgerXml),
                                          LedgerImportOptions(tallyCompany),
                                          tallyCompany)>>)))))

\* ledger => ledger.isActive !== false
IsActiveItem(x) == Get(x, "isActive") # Bool(FALSE)

\* the nameContains filter; the name of an item is a string
NameContains(items, nameContains) ==
    SelectSeq(items, LAMBDA x : Includes(ToLowerCase(Get(x, "name").s),
                                         ToLowerCase(nameContains.s)))

GetLedgerList(filters, replies) ==
    LET exportXml == BuildTDLCollectionRequest(Lit("Ledger List"), Lit("Ledger"),
                                               <<"NAME", "PARENT">>)
        response == SendRequest(replies[1])
        ledgers == ParseLedgerListResponse(response.data).a
        active == IF Truthy(Get(filters, "activeOnly"))
                  THEN SelectSeq(ledgers, IsActiveItem) ELSE ledgers
        named == IF Truthy(Get(filters, "nameContains"))
                 THEN NameContains(active, Get(filters, "nameContains")) ELSE active
    IN  Run(IF response.ok
            THEN Returned(Obj([success |-> Bool(TRUE), data |-> Arr(named),
                               count |-> Num(Len(named))]))
            ELSE Raised(<<"Failed to fetch ledger list: ">> \o response.message),
            <<>>, <<exportXml>>)

GetLedgerBalance(ledgerName, options, replies) ==
    IF ~Truthy(ledgerName)
    THEN Run(Raised(<<"Ledger name is required">>), <<>>, <<>>)
    ELSE LET fromDate == Or(Get(options, "fromDate"), Lit("01-Apr-2023"))
             toDate == Or(Get(options, "toDate"), FormatDate(Today))
             exportXml == BuildExportRequest(Lit("Ledger Balance"),
                              <<Filter("LEDGERNAME", ledgerName), Filter("FROMDATE", fromDate),
                                Filter("TODATE", toDate)>>)
             response == SendRequest(replies[1])
         IN  Run(IF response.ok
                 THEN Returned(Obj([success |-> Bool(TRUE),
                                    data |-> ParseLedgerBalanceResponse(response.data),
                                    ledgerName |-> ledgerName,
                                    period |-> Obj([fromDate |-> fromDate, toDate |-> toDate])]))
                 ELSE Raised(<<"Failed to get ledger balance: ">> \o response.message),
                 <<>>, <<exportXml>>)

\* never raises: a failed request counts as "has transactions"
\* a check that takes a failed request for a ledger without transactions
CheckLedgerTransactionsLenient(ledgerName, replies) ==
    LET exportXml == BuildExportRequest(Lit("Ledger Transactions"),
                         <<Filter("LEDGERNAME", ledgerName),
                           Filter("FROMDATE", Lit("01-Apr-1990")),
                           Filter("TODATE", FormatDate(Today))>>)
        response == SendRequest(replies[1])
        transactions == ParseLedgerTransactionsResponse(response.data)
    IN  Run(IF response.ok
            THEN Returned(Bool(Len(transactions.a) > 0))
            ELSE Returned(Bool(FALSE)),
            <<>>, <<exportXml>>)

CheckLedgerTransactions(ledgerName, replies) ==
    LET exportXml == BuildExportRequest(Lit("Ledger Transactions"),
                         <<Filter("LEDGERNAME", ledgerName),
                           Filter("FROMDATE", Lit("01-Apr-1990")),
                           Filter("TODATE", FormatDate(Today))>>)
        response == SendRequest(replies[1])
        transactions == ParseLedgerTransactionsResponse(response.data)
    IN  Run(IF response.ok
            THEN Returned(Bool(Len(transactions.a) > 0))
            ELSE Returned(Bool(TRUE)),
            <<>>, <<exportXml>>)

\* the deletion message the delete operations write by hand
DeleteXml(tag, attrs, kids) ==
    TallyMessage(<<Element(tag, attrs \o <<Attr("ACTION", <<"Delete">>)>>, kids)>>)

DeleteLedger(ledgerName, options, replies, tallyCompany) ==
    IF ~Truthy(ledgerName)
    THEN Run(Raised(<<"Ledger name is required">>), <<>>, <<>>)
    ELSE With(IF Truthy(Get(options, "force"))
              THEN Run(Returned(Bool(FALSE)), <<>>, <<>>)
              ELSE CheckLedgerTransactions(ledgerName, replies),
         LAMBDA check :
         IF Truthy(check.outcome.value)
         THEN Run(Raised(<<"Failed to delete ledger: ",
                           "Cannot delete ledger with existing transactions. Use force option to override.">>),
                  <<>>, check.sent)
         ELSE With(DeleteXml("LEDGER", <<Attr("NAME", Interp(EscapeXml(ledgerName)))>>, <<>>),
              LAMBDA deleteXml :
              With(SendRequest(replies[Len(check.sent) + 1]), LAMBDA response :
              Run(IF response.ok
                  THEN Returned(Obj([success |-> Bool(TRUE),
                                     message |-> Str(<<"Ledger '">> \o Interp(ledgerName)
                                                     \o <<"' deleted successfully">>),
                                     data |-> response.data,
                                     ledgerName |-> ledgerName]))
                  ELSE Raised(<<"Failed to delete ledger: ">> \o response.message),
                  <<deleteXml>>,
                  check.sent
                  \o <<BuildImportRequest(deleteXml, LedgerImportOptions(tallyCompany),
                                          tallyCompany)>>))))

---------------------------------------------------------------------------
(* VoucherService: lists and summaries                                     *)

\* a / 2 on a number of hundredths: an odd count leaves half a hundredth
HalfOf(a) ==
    IF a.t # "number" THEN NaN
    ELSE IF a.n % 2 = 0 THEN Num(a.n \div 2)
    ELSE [t |-> "number", n |-> a.n \div 2, half |-> TRUE]

\* twice the value of a number, halves included
Twice(a) == 2 * a.n + (IF "half" \in DOMAIN a THEN 1 ELSE 0)

RECURSIVE SumAbsAmounts(_)
\* entries.reduce((total, entry) => total + Math.abs(entry.amount), 0)
SumAbsAmounts(entries) ==
    IF entries = <<>> THEN Num(0)
    ELSE Add(SumAbsAmounts(SubSeq(entries, 1, Len(entries) - 1)),
             Abs(Get(entries[Len(entries)], "amount")))

\* an amount that is the whole sum of the absolute entry amounts
CalculateVoucherAmountWhole(ledgerEntries) ==
    SumAbsAmounts(ParseLedgerEntries(ledgerEntries).a)

CalculateVoucherAmount(ledgerEntries) ==
    HalfOf(SumAbsAmounts(ParseLedgerEntries(ledgerEntries).a))

VoucherListNode(voucher) ==
    Obj([voucherNumber |-> Or(Get(voucher, "VOUCHERNUMBER"), EmptyStr),
         voucherType |-> Or(Get(voucher, "VOUCHERTYPENAME"), EmptyStr),
         date |-> Or(Get(voucher, "DATE"), EmptyStr),
         narration |-> Or(Get(voucher, "NARRATION"), EmptyStr),
         amount |-> CalculateVoucherAmount(Or(Get(voucher, "LEDGERENTRIES.LIST"), Arr(<<>>)))])

ParseVoucherListResponse(responseData) ==
    LET body == ResponseBody(responseData)
    IN  IF HasRequestData(body)
        THEN LET voucherArray == AsArray(Or(TallyMessageOf(body), Arr(<<>>)))
             IN  Arr([i \in 1..Len(voucherArray) |-> VoucherListNode(voucherArray[i])])
        ELSE Arr(<<>>)

GroupVouchersByType(summaryData) ==
    LET none == Obj([count |-> Num(0), amount |-> Num(0)])
    IN  Obj([Sales |-> none, Purchase |-> none, Receipt |-> none, Payment |-> none,
             Journal |-> none])

ParseVoucherSummaryResponse(responseData, groupByType) ==
    LET body == ResponseBody(responseData)
    IN  IF HasRequestData(body)
        THEN LET summaryData == Or(TallyMessageOf(body), Obj(<<>>))
             IN  IF Truthy(groupByType)
                 THEN Obj([byType |-> GroupVouchersByType(summaryData),
                           total |-> Obj([count |-> Or(Get(summaryData, "TOTALCOUNT"), Num(0)),
                                          amount |-> Or(Get(summaryData, "TOTALAMOUNT"), Num(0))])])
                 ELSE Obj([totalCount |-> Or(Get(summaryData, "TOTALCOUNT"), Num(0)),
                           totalAmount |-> Or(Get(summaryData, "TOTALAMOUNT"), Num(0)),
                           averageAmount |-> Or(Get(summaryData, "AVERAGEAMOUNT"), Num(0))])
        ELSE Obj(<<>>)

\* the request filters getVoucherList sets, in the order it sets them
VoucherListFilters(filters) ==
    (IF Truthy(Get(filters, "voucherType"))
     THEN <<Filter("VOUCHERTYPE", Get(filters, "voucherType"))>> ELSE <<>>)
    \o (IF Truthy(Get(filters, "fromDate"))
        THEN <<Filter("FROMDATE", Get(filters, "fromDate"))>> ELSE <<>>)
    \o (IF Truthy(Get(filters, "toDate"))
        THEN <<Filter("TODATE", Get(filters, "toDate"))>> ELSE <<>>)
    \o (IF Truthy(Get(filters, "ledgerName"))
        THEN <<Filter("LEDGERNAME", Get(filters, "ledgerName"))>> ELSE <<>>)

GetVoucherList(filters, replies) ==
    LET exportXml == BuildCollectionRequest(Lit("Voucher"), VoucherListFilters(filters))
        response == SendRequest(replies[1])
        vouchers == ParseVoucherListResponse(response.data).a
        range == Get(filters, "amountRange")
        ranged == IF Truthy(range)
                  THEN SelectSeq(vouchers,
                           LAMBDA v : /\ Twice(Get(v, "amount")) >= 2 * Get(range, "min").n
                                      /\ Twice(Get(v, "amount")) <= 2 * Get(range, "max").n)
                  ELSE vouchers
        limited == IF Truthy(Get(filters, "limit"))
                   THEN SubSeq(ranged, 1, IF Get(filters, "limit").n < Len(ranged)
                                          THEN Get(filters, "limit").n ELSE Len(ranged))
                   ELSE ranged
    IN  Run(IF response.ok
            THEN Returned(Obj([success |-> Bool(TRUE), data |-> Arr(limited),
                               count |-> Num(Len(limited))]))
            ELSE Raised(<<"Failed to fetch voucher list: ">> \o response.message),
            <<>>, <<exportXml>>)

GetVoucherSummary(options, replies) ==
    LET fromDate == Or(Get(options, "fromDate"), Lit("01-Apr-2023"))
        toDate == Or(Get(options, "toDate"), FormatDate(Today))
        exportXml == BuildExportRequest(Lit("Voucher Summary"),
                         <<Filter("FROMDATE", fromDate), Filter("TODATE", toDate)>>
                         \o (IF Truthy(Get(options, "voucherType"))
                             THEN <<Filter("VOUCHERTYPE", Get(options, "voucherType"))>>
                             ELSE <<>>))
        response == SendRequest(replies[1])
    IN  Run(IF response.ok
            THEN Returned(Obj([success |-> Bool(TRUE),
                               data |-> ParseVoucherSummaryResponse(response.data,
                                                                    Get(options, "groupByType")),
                               period |-> Obj([fromDate |-> fromDate, toDate |-> toDate])]))
            ELSE Raised(<<"Failed to get voucher summary: ">> \o response.message),
            <<>>, <<exportXml>>)

---------------------------------------------------------------------------
(* StockItemService                                                        *)

\* parseFloat(node[tag]) || 0
FloatOrZero(node, tag) == Or(ParseFloat(Get(node, tag)), Num(0))

ParseStockItemResponse(responseData) ==
    LET body == ResponseBody(responseData)
    IN  IF HasRequestData(body)
        THEN LET stockData == Or(TallyMessageOf(body), Obj(<<>>))
             IN  Obj([name |-> Or(Get(stockData, "NAME"), EmptyStr),
                      parent |-> Or(Get(stockData, "PARENT"), EmptyStr),
                      alias |-> Or(Get(stockData, "ALIAS"), EmptyStr),
                      baseUnits |-> Or(Get(stockData, "BASEUNITS"), EmptyStr),
                      openingBalance |->
                          Obj([quantity |-> FloatOrZero(stockData, "OPENINGBALANCE"),
                               rate |-> FloatOrZero(stockData, "OPENINGRATE"),
                               value |-> FloatOrZero(stockData, "OPENINGVALUE")]),
                      closingBalance |->
                          Obj([quantity |-> FloatOrZero(stockData, "CLOSINGBALANCE"),
                               rate |-> FloatOrZero(stockData, "CLOSINGRATE"),
                               value |-> FloatOrZero(stockData, "CLOSINGVALUE")])])
        ELSE Obj(<<>>)

StockListNode(stock) ==
    Obj([name |-> Or(Get(stock, "NAME"), EmptyStr),
         parent |-> Or(Get(stock, "PARENT"), EmptyStr),
         alias |-> Or(Get(stock, "ALIAS"), EmptyStr),
         baseUnits |-> Or(Get(stock, "BASEUNITS"), EmptyStr),
         isActive |-> Bool(Get(stock, "ISACTIVE") # Lit("No")),
         closingBalance |-> Obj([quantity |-> FloatOrZero(stock, "CLOSINGBALANCE"),
                                 value |-> FloatOrZero(stock, "CLOSINGVALUE")])])

ParseStockItemListResponse(responseData) ==
    LET body == ResponseBody(responseData)
    IN  IF HasRequestData(body)
        THEN LET stockArray == AsArray(Or(TallyMessageOf(body), Arr(<<>>)))
             IN  Arr([i \in 1..Len(stockArray) |-> StockListNode(stockArray[i])])
        ELSE Arr(<<>>)

ParseStockBalanceResponse(responseData) ==
    LET body == ResponseBody(responseData)
        zero == Obj([quantity |-> Num(0), rate |-> Num(0), value |-> Num(0)])
    IN  IF HasRequestData(body)
        THEN LET balanceData == Or(TallyMessageOf(body), Obj(<<>>))
             IN  Obj([openingBalance |->
                          Obj([quantity |-> FloatOrZero(balanceData, "OPENINGBALANCE"),
                               rate |-> FloatOrZero(balanceData, "OPENINGRATE"),
                               value |-> FloatOrZero(balanceData, "OPENINGVALUE")]),
                      inwardQuantity |-> FloatOrZero(balanceData, "INWARDQUANTITY"),
                      outwardQuantity |-> FloatOrZero(balanceData, "OUTWARDQUANTITY"),
                      closingBalance |->
                          Obj([quantity |-> FloatOrZero(balanceData, "CLOSINGBALANCE"),
                               rate |-> FloatOrZero(balanceData, "CLOSINGRATE"),
                               value |-> FloatOrZero(balanceData, "CLOSINGVALUE")])])
        ELSE Obj([openingBalance |-> zero, inwardQuantity |-> Num(0),
                  outwardQuantity |-> Num(0), closingBalance |-> zero])

StockSummaryItem(item) ==
    Obj([name |-> Or(Get(item, "NAME"), EmptyStr),
         group |-> Or(Get(item, "PARENT"), EmptyStr),
         closingQuantity |-> FloatOrZero(item, "CLOSINGBALANCE"),
         closingValue |-> FloatOrZero(item, "CLOSINGVALUE"),
         rate |-> FloatOrZero(item, "RATE"),
         baseUnits |-> Or(Get(item, "BASEUNITS"), EmptyStr)])

RECURSIVE SumClosingValue(_)
\* items.reduce((sum, item) => sum + item.closingValue, 0)
SumClosingValue(items) ==
    IF items = <<>> THEN Num(0)
    ELSE Add(SumClosingValue(SubSeq(items, 1, Len(items) - 1)),
             Get(items[Len(items)], "closingValue"))

\* a stock summary that counts an item without stock among the negative ones too
ParseStockSummaryResponseLoose(responseData) ==
    LET body == ResponseBody(responseData)
    IN  IF HasRequestData(body)
        THEN LET summaryData == Or(TallyMessageOf(body), Obj(<<>>))
                 itemArray == AsArray(Or(Or(Get(summaryData, "STOCKITEMS"),
                                            Get(summaryData, "TALLYMESSAGE")), Arr(<<>>)))
                 items == [i \in 1..Len(itemArray) |-> StockSummaryItem(itemArray[i])]
                 Count(Test(_)) == Num(Len(SelectSeq(items, Test)))
             IN  Obj([items |-> Arr(items),
                      totalItems |-> Num(Len(items)),
                      totalValue |-> SumClosingValue(items),
                      summary |->
                          Obj([positiveStock |->
                                   Count(LAMBDA x : Get(x, "closingQuantity").n > 0),
                               negativeStock |->
                                   Count(LAMBDA x : Get(x, "closingQuantity").n <= 0),
                               zeroStock |->
                                   Count(LAMBDA x : Get(x, "closingQuantity").n = 0)])])
        ELSE Obj([items |-> Arr(<<>>), totalItems |-> Num(0), totalValue |-> Num(0),
                  summary |-> Obj([positiveStock |-> Num(0), negativeStock |-> Num(0),
                                   zeroStock |-> Num(0)])])

ParseStockSummaryResponse(responseData) ==
    LET body == ResponseBody(responseData)
    IN  IF HasRequestData(body)
        THEN LET summaryData == Or(TallyMessageOf(body), Obj(<<>>))
                 itemArray == AsArray(Or(Or(Get(summaryData, "STOCKITEMS"),
                                            Get(summaryData, "TALLYMESSAGE")), Arr(<<>>)))
                 items == [i \in 1..Len(itemArray) |-> StockSummaryItem(itemArray[i])]
                 Count(Test(_)) == Num(Len(SelectSeq(items, Test)))
             IN  Obj([items |-> Arr(items),
                      totalItems |-> Num(Len(items)),
                      totalValue |-> SumClosingValue(items),
                      summary |->
                          Obj([positiveStock |->
                                   Count(LAMBDA x : Get(x, "closingQuantity").n > 0),
                               negativeStock |->
                                   Count(LAMBDA x : Get(x, "closingQuantity").n < 0),
                               zeroStock |->
                                   Count(LAMBDA x : Get(x, "closingQuantity").n = 0)])])
        ELSE Obj([items |-> Arr(<<>>), totalItems |-> Num(0), totalValue |-> Num(0),
                  summary |-> Obj([positiveStock |-> Num(0), negativeStock |-> Num(0),
                                   zeroStock |-> Num(0)])])

StockMovementNode(movement) ==
    Obj([date |-> Or(Get(movement, "DATE"), EmptyStr),
         voucherType |-> Or(Get(movement, "VOUCHERTYPENAME"), EmptyStr),
         voucherNumber |-> Or(Get(movement, "VOUCHERNUMBER"), EmptyStr),
         inwardQuantity |-> FloatOrZero(movement, "INWARDQUANTITY"),
         outwardQuantity |-> FloatOrZero(movement, "OUTWARDQUANTITY"),
         rate |-> FloatOrZero(movement, "RATE"),
         amount |-> FloatOrZero(movement, "AMOUNT"),
         godown |-> Or(Get(movement, "GODOWNNAME"), EmptyStr)])

ParseStockMovementsResponse(responseData) ==
    LET body == ResponseBody(responseData)
    IN  IF HasRequestData(body)
        THEN LET movementArray == AsArray(Or(TallyMessageOf(body), Arr(<<>>)))
             IN  Arr([i \in 1..Len(movementArray) |-> StockMovementNode(movementArray[i])])
        ELSE Arr(<<>>)

CreateStockItem(stockData, replies, tallyCompany) ==
    IF ~Truthy(Get(stockData, "name"))
    THEN Run(Raised(<<"Stock item name is required">>), <<>>, <<>>)
    ELSE IF ~Truthy(Get(stockData, "parent"))
    THEN Run(Raised(<<"Parent group is required">>), <<>>, <<>>)
    ELSE IF ~Truthy(Get(stockData, "baseUnits"))
    THEN Run(Raised(<<"Base units are required">>), <<>>, <<>>)
    ELSE LET stockXml == BuildStockItemXml(stockData)
             importXml == BuildImportRequest(stockXml, NoOptions, tallyCompany)
             response == SendRequest(replies[1])
         IN  Run(IF response.ok
                 THEN Returned(Obj([success |-> Bool(TRUE),
                                    message |-> Str(<<"Stock item '">>
                                                    \o Interp(Get(stockData, "name"))
                                                    \o <<"' created successfully">>),
                                    data |-> response.data,
                                    stockItemName |-> Get(stockData, "name")]))
                 ELSE Raised(<<"Failed to create stock item: ">> \o response.message),
                 <<stockXml>>, <<importXml>>)

FetchStockItem(stockItemName, options, replies) ==
    IF ~Truthy(stockItemName)
    THEN Run(Raised(<<"Stock item name is required">>), <<>>, <<>>)
    ELSE LET exportXml == BuildExportRequest(Lit("Stock Item Details"),
                              <<Filter("STOCKITEMNAME", stockItemName)>>
                              \o (IF Truthy(Get(options, "asOn"))
                                  THEN <<Filter("ASON", Get(options, "asOn"))>> ELSE <<>>))
             response == SendRequest(replies[1])
         IN  Run(IF response.ok
                 THEN Returned(Obj([success |-> Bool(TRUE),
                                    data |-> ParseStockItemResponse(response.data),
                                    stockItemName |-> stockItemName]))
                 ELSE Raised(<<"Failed to fetch stock item: ">> \o response.message),
                 <<>>, <<exportXml>>)

GetStockItemList(filters, replies) ==
    LET exportXml == BuildTDLCollectionRequest(Lit("Stock Item List"), Lit("Stock Item"),
                                               <<"NAME", "PARENT">>)
        response == SendRequest(replies[1])
        stockItems == ParseStockItemListResponse(response.data).a
        active == IF Truthy(Get(filters, "activeOnly"))
                  THEN SelectSeq(stockItems, IsActiveItem) ELSE stockItems
        named == IF Truthy(Get(filters, "nameContains"))
                 THEN NameContains(active, Get(filters, "nameContains")) ELSE active
        stocked == IF Truthy(Get(filters, "withBalance"))
                   THEN SelectSeq(named,
                            LAMBDA x : Get(Get(x, "closingBalance"), "quantity").n > 0)
                   ELSE named
    IN  Run(IF response.ok
            THEN Returned(Obj([success |-> Bool(TRUE), data |-> Arr(stocked),
                               count |-> Num(Len(stocked))]))
            ELSE Raised(<<"Failed to fetch stock item list: ">> \o response.message),
            <<>>, <<exportXml>>)

UpdateStockItem(stockItemName, updates, replies, tallyCompany) ==
    IF ~Truthy(stockItemName)
    THEN Run(Raised(<<"Stock item name is required">>), <<>>, <<>>)
    ELSE With(FetchStockItem(stockItemName, NoOptions, replies), LAMBDA currentItem :
         IF currentItem.outcome.status = "raised"
         THEN Run(Raised(<<"Failed to update stock item: ">> \o currentItem.outcome.message),
                  <<>>, currentItem.sent)
         ELSE With(Get(currentItem.outcome.value, "data"), LAMBDA current :
              With(BuildStockItemXml(
                       Obj([name |-> stockItemName,
                            parent |-> Or(Get(updates, "parent"), Get(current, "parent")),
                            baseUnits |-> Or(Get(updates, "baseUnits"),
                                             Get(current, "baseUnits")),
                            alias |-> Or(Get(updates, "alias"), Get(current, "alias")),
                            openingBalance |-> Or(Get(updates, "openingBalance"),
                                                  Get(current, "openingBalance"))])),
              LAMBDA stockXml :
              With(SendRequest(replies[2]), LAMBDA response :
              Run(IF response.ok
                  THEN Returned(Obj([success |-> Bool(TRUE),
                                     message |-> Str(<<"Stock item '">>
                                                     \o Interp(stockItemName)
                                                     \o <<"' updated successfully">>),
                                     data |-> response.data,
                                     stockItemName |-> stockItemName]))
                  ELSE Raised(<<"Failed to update stock item: ">> \o response.message),
                  <<stockXml>>,
                  currentItem.sent
                  \o <<BuildImportRequest(ReplaceCreateByAlter(stockXml), NoOptions,
                                          tallyCompany)>>)))))

\* never raises: a failed request counts as "has transactions"
CheckStockTransactions(stockItemName, replies) ==
    LET exportXml == BuildExportRequest(Lit("Stock Transactions"),
                         <<Filter("STOCKITEMNAME", stockItemName),
                           Filter("FROMDATE", Lit("01-Apr-1990")),
                           Filter("TODATE", FormatDate(Today))>>)
        response == SendRequest(replies[1])
        transactions == ParseStockMovementsResponse(response.data)
    IN  Run(IF response.ok
            THEN Returned(Bool(Len(transactions.a) > 0))
            ELSE Returned(Bool(TRUE)),
            <<>>, <<exportXml>>)

DeleteStockItem(stockItemName, options, replies, tallyCompany) ==
    IF ~Truthy(stockItemName)
    THEN Run(Raised(<<"Stock item name is required">>), <<>>, <<>>)
    ELSE With(IF Truthy(Get(options, "force"))
              THEN Run(Returned(Bool(FALSE)), <<>>, <<>>)
              ELSE CheckStockTransactions(stockItemName, replies),
         LAMBDA check :
         IF Truthy(check.outcome.value)
         THEN Run(Raised(<<"Failed to delete stock item: ",
                           "Cannot delete stock item with existing transactions. Use force option to override.">>),
                  <<>>, check.sent)
         ELSE With(DeleteXml("STOCKITEM",
                             <<Attr("NAME", Interp(EscapeXml(stockItemName)))>>, <<>>),
              LAMBDA deleteXml :
              With(SendRequest(replies[Len(check.sent) + 1]), LAMBDA response :
              Run(IF response.ok
                  THEN Returned(Obj([success |-> Bool(TRUE),
                                     message |-> Str(<<"Stock item '">>
                                                     \o Interp(stockItemName)
                                                     \o <<"' deleted successfully">>),
                                     data |-> response.data,
                                     stockItemName |-> stockItemName]))
                  ELSE Raised(<<"Failed to delete stock item: ">> \o response.message),
                  <<deleteXml>>,
                  check.sent
                  \o <<BuildImportRequest(deleteXml, NoOptions, tallyCompany)>>))))

GetStockBalance(stockItemName, options, replies) ==
    IF ~Truthy(stockItemName)
    THEN Run(Raised(<<"Stock item name is required">>), <<>>, <<>>)
    ELSE LET asOn == Or(Get(options, "asOn"), FormatDate(Today))
             exportXml == BuildExportRequest(Lit("Stock Balance"),
                              <<Filter("STOCKITEMNAME", stockItemName), Filter("ASON", asOn)>>
                              \o (IF Truthy(Get(options, "godown"))
                                  THEN <<Filter("GODOWN", Get(options, "godown"))>> ELSE <<>>))
             response == SendRequest(replies[1])
         IN  Run(IF response.ok
                 THEN Returned(Obj([success |-> Bool(TRUE),
                                    data |-> ParseStockBalanceResponse(response.data),
                                    stockItemName |-> stockItemName,
                                    asOn |-> asOn]))
                 ELSE Raised(<<"Failed to get stock balance: ">> \o response.message),
                 <<>>, <<exportXml>>)

GetStockSummary(options, replies) ==
    LET asOn == Or(Get(options, "asOn"), FormatDate(Today))
        exportXml == BuildExportRequest(Lit("Stock Summary"),
                         <<Filter("ASON", asOn)>>
                         \o (IF Truthy(Get(options, "group"))
                             THEN <<Filter("STOCKGROUP", Get(options, "group"))>> ELSE <<>>)
                         \o (IF Truthy(Get(options, "godown"))
                             THEN <<Filter("GODOWN", Get(options, "godown"))>> ELSE <<>>)
                         \o (IF Get(options, "includeZeroBalance") # Undefined
                             THEN <<Filter("INCLUDEZEROBALANCE",
                                           Str(YesNo(Truthy(Get(options, "includeZeroBalance")))))>>
                             ELSE <<>>))
        response == SendRequest(replies[1])
    IN  Run(IF response.ok
            THEN Returned(Obj([success |-> Bool(TRUE),
                               data |-> ParseStockSummaryResponse(response.data),
                               asOn |-> asOn]))
            ELSE Raised(<<"Failed to get stock summary: ">> \o response.message),
            <<>>, <<exportXml>>)

GetStockMovements(stockItemName, options, replies) ==
    IF ~Truthy(stockItemName)
    THEN Run(Raised(<<"Stock item name is required">>), <<>>, <<>>)
    ELSE LET fromDate == Or(Get(options, "fromDate"), Lit("01-Apr-2023"))
             toDate == Or(Get(options, "toDate"), FormatDate(Today))
             exportXml == BuildExportRequest(Lit("Stock Movements"),
                              <<Filter("STOCKITEMNAME", stockItemName),
                                Filter("FROMDATE", fromDate), Filter("TODATE", toDate)>>
                              \o (IF Truthy(Get(options, "voucherType"))
                                  THEN <<Filter("VOUCHERTYPE", Get(options, "voucherType"))>>
                                  ELSE <<>>)
                              \o (IF Truthy(Get(options, "godown"))
                                  THEN <<Filter("GODOWN", Get(options, "godown"))>> ELSE <<>>))
             response == SendRequest(replies[1])
         IN  Run(IF response.ok
                 THEN Returned(Obj([success |-> Bool(TRUE),
                                    data |-> ParseStockMovementsResponse(response.data),
                                    stockItemName |-> stockItemName,
                                    period |-> Obj([fromDate |-> fromDate, toDate |-> toDate])]))
                 ELSE Raised(<<"Failed to get stock movements: ">> \o response.message),
                 <<>>, <<exportXml>>)

---------------------------------------------------------------------------
(* CompanyService                                                          *)

\* parseInt(v): the integer the leading numeric text of a string denotes
ParseInt(v) == ParseFloat(v)

\* { ...a, ...b }
Spread(a, b) ==
    LET fa == IF a.t = "object" THEN a.o ELSE <<>>
        fb == IF b.t = "object" THEN b.o ELSE <<>>
    IN  Obj([k \in (DOMAIN fa) \cup (DOMAIN fb) |-> IF k \in DOMAIN fb THEN fb[k] ELSE fa[k]])

ParseCompanyResponse(responseData) ==
    LET body == ResponseBody(responseData)
    IN  IF HasRequestData(body)
        THEN LET companyData == Or(TallyMessageOf(body), Obj(<<>>))
             IN  Obj([name |-> Or(Get(companyData, "NAME"), EmptyStr),
                      mailingName |-> Or(Get(companyData, "MAILINGNAME"), EmptyStr),
                      address |-> Or(Get(companyData, "ADDRESS"), EmptyStr),
                      state |-> Or(Get(companyData, "STATE"), EmptyStr),
                      country |-> Or(Get(companyData, "COUNTRY"), EmptyStr),
                      pincode |-> Or(Get(companyData, "PINCODE"), EmptyStr),
                      currencySymbol |-> Or(Get(companyData, "CURRENCYSYMBOL"), EmptyStr),
                      financialYearFrom |-> Or(Get(companyData, "BOOKSBEGINFROM"), EmptyStr),
                      isActive |-> Bool(Get(companyData, "ISACTIVE") # Lit("No"))])
        ELSE Obj(<<>>)

CompanyListNode(company) ==
    Obj([name |-> Or(Get(company, "NAME"), EmptyStr),
         mailingName |-> Or(Get(company, "MAILINGNAME"), EmptyStr),
         isActive |-> Bool(Get(company, "ISACTIVE") # Lit("No")),
         lastModified |-> Or(Get(company, "LASTMODIFIED"), EmptyStr)])

ParseCompanyListResponse(responseData) ==
    LET body == ResponseBody(responseData)
    IN  IF HasRequestData(body)
        THEN LET companyArray == AsArray(Or(TallyMessageOf(body), Arr(<<>>)))
             IN  Arr([i \in 1..Len(companyArray) |-> CompanyListNode(companyArray[i])])
        ELSE Arr(<<>>)

ParseFinancialYearResponse(responseData) ==
    LET body == ResponseBody(responseData)
    IN  IF HasRequestData(body)
        THEN LET fyData == Or(TallyMessageOf(body), Obj(<<>>))
             IN  Obj([startDate |-> Or(Get(fyData, "STARTDATE"), EmptyStr),
                      endDate |-> Or(Get(fyData, "ENDDATE"), EmptyStr),
                      booksBeginFrom |-> Or(Get(fyData, "BOOKSBEGINFROM"), EmptyStr),
                      accountingBasis |-> Or(Get(fyData, "ACCOUNTINGBASIS"), EmptyStr),
                      isLocked |-> Bool(Get(fyData, "ISLOCKED") = Lit("Yes"))])
        ELSE Obj(<<>>)

ParseCompanyStatisticsResponse(responseData) ==
    LET body == ResponseBody(responseData)
    IN  IF HasRequestData(body)
        THEN LET statsData == Or(TallyMessageOf(body), Obj(<<>>))
             IN  Obj([lastBackupDate |-> Or(Get(statsData, "LASTBACKUPDATE"), EmptyStr),
                      databaseSize |-> Or(Get(statsData, "DATABASESIZE"), Num(0)),
                      createdDate |-> Or(Get(statsData, "CREATEDDATE"), EmptyStr),
                      totalTransactions |->
                          Or(ParseInt(Get(statsData, "TOTALTRANSACTIONS")), Num(0))])
        ELSE Obj(<<>>)

\* CompanyService's own list interpreters return the raw nodes
CompanyParseLedgerListResponse(responseData) ==
    LET body == ResponseBody(responseData)
    IN  IF HasRequestData(body)
        THEN Arr(AsArray(Or(TallyMessageOf(body), Arr(<<>>))))
        ELSE Arr(<<>>)

CompanyParseVoucherListResponse(responseData) ==
    LET body == ResponseBody(responseData)
    IN  IF HasRequestData(body)
        THEN Arr(AsArray(Or(TallyMessageOf(body), Arr(<<>>))))
        ELSE Arr(<<>>)

CompanyParseStockListResponse(responseData) ==
    LET body == ResponseBody(responseData)
    IN  IF HasRequestData(body)
        THEN Arr(AsArray(Or(TallyMessageOf(body), Arr(<<>>))))
        ELSE Arr(<<>>)

GetCompanyInfo(companyName, replies) ==
    IF ~Truthy(companyName)
    THEN Run(Raised(<<"Company name is required">>), <<>>, <<>>)
    ELSE LET exportXml == BuildExportRequest(Lit("Company Details"),
                                             <<Filter("COMPANYNAME", companyName)>>)
             response == SendRequest(replies[1])
         IN  Run(IF response.ok
                 THEN Returned(Obj([success |-> Bool(TRUE),
                                    data |-> ParseCompanyResponse(response.data),
                                    companyName |-> companyName]))
                 ELSE Raised(<<"Failed to get company info: ">> \o response.message),
                 <<>>, <<exportXml>>)

\* the requests issued for the details of the first k companies of the list
DetailRequests(companies, k) ==
    Cardinality({i \in 1..k : Truthy(Get(companies[i], "name"))})

\* the detail lookup of the i-th company: its reply is the one after those of
\* the list request and of the lookups started before it
CompanyDetail(companies, i, replies) ==
    GetCompanyInfo(Get(companies[i], "name"),
                   SubSeq(replies, 1 + DetailRequests(companies, i), Len(replies)))

RECURSIVE DetailsSent(_, _, _)
DetailsSent(companies, k, replies) ==
    IF k = 0 THEN <<>>
    ELSE DetailsSent(companies, k - 1, replies) \o CompanyDetail(companies, k, replies).sent

GetCompanyList(options, replies) ==
    LET exportXml == BuildCollectionRequest(Lit("Companies"),
                         IF Truthy(Get(options, "activeOnly"))
                         THEN <<Filter("ACTIVEONLY", Lit("Yes"))>> ELSE <<>>)
        response == SendRequest(replies[1])
        companies == ParseCompanyListResponse(response.data).a
        detailed ==
            [i \in 1..Len(companies) |->
                LET details == CompanyDetail(companies, i, replies)
                IN  IF details.outcome.status = "returned"
                    THEN Spread(companies[i], Get(details.outcome.value, "data"))
                    ELSE companies[i]]
        withDetails == Truthy(Get(options, "includeDetails"))
        result == IF withDetails THEN detailed ELSE companies
    IN  IF response.ok
        THEN Run(Returned(Obj([success |-> Bool(TRUE), data |-> Arr(result),
                               count |-> Num(Len(result))])),
                 <<>>,
                 <<exportXml>> \o (IF withDetails
                                   THEN DetailsSent(companies, Len(companies), replies)
                                   ELSE <<>>))
        ELSE Run(Raised(<<"Failed to get company list: ">> \o response.message),
                 <<>>, <<exportXml>>)

CreateCompany(companyData, replies, tallyCompany) ==
    IF ~Truthy(Get(companyData, "name"))
    THEN Run(Raised(<<"Company name is required">>), <<>>, <<>>)
    ELSE LET companyXml == BuildCompanyXml(companyData)
             importXml == BuildImportRequest(companyXml, NoOptions, tallyCompany)
             response == SendRequest(replies[1])
         IN  Run(IF response.ok
                 THEN Returned(Obj([success |-> Bool(TRUE),
                                    message |-> Str(<<"Company '">>
                                                    \o Interp(Get(companyData, "name"))
                                                    \o <<"' created successfully">>),
                                    data |-> response.data,
                                    companyName |-> Get(companyData, "name")]))
                 ELSE Raised(<<"Failed to create company: ">> \o response.message),
                 <<companyXml>>, <<importXml>>)

\* companyName ? { COMPANYNAME: companyName } : {}
CompanyFilters(companyName) ==
    IF Truthy(companyName) THEN <<Filter("COMPANYNAME", companyName)>> ELSE <<>>

GetFinancialYear(companyName, replies) ==
    LET exportXml == BuildExportRequest(Lit("Financial Year Info"), CompanyFilters(companyName))
        response == SendRequest(replies[1])
    IN  Run(IF response.ok
            THEN Returned(Obj([success |-> Bool(TRUE),
                               data |-> ParseFinancialYearResponse(response.data),
                               companyName |-> companyName]))
            ELSE Raised(<<"Failed to get financial year info: ">> \o response.message),
            <<>>, <<exportXml>>)

\* _getAdditionalStatistics: the counts it gathers until a request fails;
\* it never raises.  replies are those of its own requests.
GetAdditionalStatistics(companyName, options, replies) ==
    LET wanted == (IF Truthy(Get(options, "includeLedgerCount")) THEN <<"ledgerCount">> ELSE <<>>)
                  \o (IF Truthy(Get(options, "includeVoucherCount"))
                      THEN <<"voucherCount">> ELSE <<>>)
                  \o (IF Truthy(Get(options, "includeStockCount"))
                      THEN <<"stockItemCount">> ELSE <<>>)
        Collection(key) == CASE key = "ledgerCount" -> Lit("Ledger")
                             [] key = "voucherCount" -> Lit("Voucher")
                             [] OTHER -> Lit("Stock Item")
        Counted(key, data) ==
            CASE key = "ledgerCount" -> Len(CompanyParseLedgerListResponse(data).a)
              [] key = "voucherCount" -> Len(CompanyParseVoucherListResponse(data).a)
              [] OTHER -> Len(CompanyParseStockListResponse(data).a)
        failed == {i \in 1..Len(wanted) : ~SendRequest(replies[i]).ok}
        done == IF failed = {} THEN Len(wanted)
                ELSE (CHOOSE i \in failed : \A j \in failed : i <= j) - 1
        issued == IF failed = {} THEN Len(wanted) ELSE done + 1
    IN  Run(Returned(Obj([key \in {wanted[i] : i \in 1..done} |->
                             Num(Counted(key, SendRequest(replies[
                                 CHOOSE i \in 1..done : wanted[i] = key]).data))])),
            <<>>,
            [i \in 1..issued |->
                BuildCollectionRequest(Collection(wanted[i]), CompanyFilters(companyName))])

GetCompanyStatistics(companyName, options, replies) ==
    LET exportXml == BuildExportRequest(Lit("Company Statistics"), CompanyFilters(companyName))
        response == SendRequest(replies[1])
        statistics == ParseCompanyStatisticsResponse(response.data)
        additional == GetAdditionalStatistics(companyName, options, Tail(replies))
        more == \/ Truthy(Get(options, "includeLedgerCount"))
                \/ Truthy(Get(options, "includeVoucherCount"))
                \/ Truthy(Get(options, "includeStockCount"))
    IN  IF response.ok
        THEN Run(Returned(Obj([success |-> Bool(TRUE),
                               data |-> IF more
                                        THEN Spread(statistics, additional.outcome.value)
                                        ELSE statistics,
                               companyName |-> companyName])),
                 <<>>, <<exportXml>> \o (IF more THEN additional.sent ELSE <<>>))
        ELSE Run(Raised(<<"Failed to get company statistics: ">> \o response.message),
                 <<>>, <<exportXml>>)

---------------------------------------------------------------------------
(* TallyConnector.testConnection                                           *)

TestXml ==
    BuildEnvelope(<<"Export Data">>,
        Element("EXPORTDATA", <<>>,
            <<Element("REQUESTDESC", <<>>, <<Leaf("REPORTNAME", <<"List of Companies">>)>>)>>))

\* a probe that lets the failure of its request reach the caller
TestConnectionRaising(replies) ==
    LET response == SendRequest(replies[1])
    IN  Run(IF response.ok THEN Returned(Bool(TRUE)) ELSE Raised(response.message),
            <<>>, <<TestXml>>)

\* never raises: false stands for every failure
TestConnection(replies) ==
    LET response == SendRequest(replies[1])
    IN  Run(IF response.ok THEN Returned(Bool(TRUE)) ELSE Returned(Bool(FALSE)),
            <<>>, <<TestXml>>)

---------------------------------------------------------------------------
(* xml2js, as the connector configures it: explicitArray false, mergeAttrs  *)
(* true                                                                     *)

Entities == {"amp;", "lt;", "gt;", "quot;", "apos;"}

EntityChar(name) ==
    CASE name = "amp;" -> "&"
      [] name = "lt;" -> "<"
      [] name = "gt;" -> ">"
      [] name = "quot;" -> "\""
      [] OTHER -> "'"

RECURSIVE XmlDecode(_)
\* the character data the XML parser hands over: entity references resolved
XmlDecode(s) ==
    IF s = <<>> THEN <<>>
    ELSE IF Len(s) >= 2 /\ s[1] = "&" /\ s[2] \in Entities
         THEN <<EntityChar(s[2])>> \o XmlDecode(SubSeq(s, 3, Len(s)))
         ELSE <<Head(s)>> \o XmlDecode(Tail(s))

RECURSIVE Xml2JsNode(_)
\* the value of one element: its text when it has neither attributes nor
\* children ('' for an empty element), otherwise an object of its attributes
\* and children, a name that occurs once holding the value itself and a name
\* that occurs several times holding the array of the values, in order
Xml2JsNode(el) ==
    IF el.attrs = <<>> /\ el.kids = <<>>
    THEN Str(XmlDecode(el.text))
    ELSE LET keys == {el.attrs[i].name : i \in 1..Len(el.attrs)}
                     \cup {el.kids[i].tag : i \in 1..Len(el.kids)}
             attrValues(k) ==
                 LET hits == SelectSeq(el.attrs, LAMBDA a : a.name = k)
                 IN  [i \in 1..Len(hits) |-> Str(XmlDecode(hits[i].value))]
             kidValues(k) ==
                 LET hits == SelectSeq(el.kids, LAMBDA c : c.tag = k)
                 IN  [i \in 1..Len(hits) |-> Xml2JsNode(hits[i])]
         IN  Obj([k \in keys |->
                     With(attrValues(k) \o kidValues(k),
                          LAMBDA values : IF Len(values) = 1 THEN values[1] ELSE Arr(values))])

\* parseString(document): an object holding the root element under its tag
Xml2Js(root) == Obj([k \in {root.tag} |-> Xml2JsNode(root)])

---------------------------------------------------------------------------
(* What the remote end may answer                                          *)

ErrorText == <<"Parent group does not exist">>

ResponseEnvelope(body) ==
    Element("ENVELOPE", <<>>,
        <<Element("HEADER", <<>>, <<Leaf("VERSION", <<"1">>), Leaf("STATUS", <<"1">>)>>),
          Element("BODY", <<>>, body)>>)

\* the documents that report a remote error, and one whose ERROR tag is empty
ErrorDocuments ==
    {ResponseEnvelope(<<Leaf("ERROR", ErrorText)>>),
     ResponseEnvelope(<<Leaf("LINEERROR", ErrorText)>>),
     Element("ENVELOPE", <<>>, <<Leaf("LINEERROR", ErrorText)>>),
     Leaf("ERROR", ErrorText)}

EmptyErrorDocument == ResponseEnvelope(<<Leaf("ERROR", <<>>)>>)

ImportResultDocument ==
    ResponseEnvelope(<<Element("DATA", <<>>,
        <<Element("IMPORTRESULT", <<>>,
            <<Leaf("CREATED", <<"1">>), Leaf("ERRORS", <<"0">>)>>)>>)>>)

\* an export answer: the TALLYMESSAGE elements under EXPORTDATA/REQUESTDATA
ExportDocument(messages) ==
    ResponseEnvelope(<<Element("EXPORTDATA", <<>>,
        <<Element("REQUESTDATA", <<>>, messages)>>)>>)

FailedReplies ==
    {TransportFailure(code) : code \in TransportCodes}
    \cup {Unparsable}
    \cup {Xml(Xml2Js(doc)) : doc \in ErrorDocuments}

\* the answers to an import request
ImportReplies ==
    FailedReplies \cup {Xml(Xml2Js(ImportResultDocument)), Xml(Xml2Js(EmptyErrorDocument))}

---------------------------------------------------------------------------
(* The arguments the callers pass                                          *)

SomeName == Str(<<"A", "&">>)
SomeDate == Str(<<"15", "-", "Sep", "-", "2023">>)

Amounts == {Num(n) : n \in (-MaxAmount)..MaxAmount}

EntryNames == {EmptyStr, SomeName}

Entry(ledgerName, amount) == Obj([ledgerName |-> ledgerName, amount |-> amount])

Entries == {Entry(n, a) : n \in EntryNames, a \in Amounts}

SeqsUpTo(S, n) == UNION {[1..k -> S] : k \in 0..n}

VoucherData(voucherType, date, ledgerEntries) ==
    Obj([voucherType |-> voucherType, date |-> date, ledgerEntries |-> ledgerEntries])

VoucherHeaders ==
    {<<Lit("Sales"), SomeDate>>, <<Undefined, SomeDate>>, <<Lit("Sales"), EmptyStr>>}

\* the vouchers that lack type or date come with the shorter entry lists only
Vouchers ==
    {VoucherData(x[1][1], x[1][2], Arr(x[2])) :
        x \in {y \in VoucherHeaders \X SeqsUpTo(Entries, MaxEntries) :
                  y[1] = <<Lit("Sales"), SomeDate>> \/ Len(y[2]) < MaxEntries}}
    \cup {VoucherData(Lit("Sales"), SomeDate, Undefined)}

TallyCompanies == {Undefined, Lit("Co")}

\* the longest ledgerEntries sequence an update carries
MaxUpdateEntries == 2

VoucherNumbers == {EmptyStr, Lit("7")}
VoucherTypes == {Undefined, Lit("Sales")}

VoucherUpdates ==
    {Obj([date |-> d, ledgerEntries |-> e]) :
        d \in {Undefined, SomeDate},
        e \in {Undefined} \cup {Arr(q) : q \in SeqsUpTo(Entries, MaxUpdateEntries)}}

\* a voucher as the remote end exports it
VoucherMessage(entries) ==
    Element("TALLYMESSAGE", <<>>,
        <<Leaf("VOUCHERNUMBER", <<"7">>), Leaf("VOUCHERTYPENAME", <<"Sales">>),
          Leaf("DATE", SomeDate.s), Leaf("NARRATION", <<"Goods">>)>>
        \o [i \in 1..Len(entries) |-> LedgerEntryXml(entries[i])])

FetchedEntries ==
    {<<>>, <<Entry(SomeName, Num(1))>>,
     <<Entry(SomeName, Num(1)), Entry(Lit("B"), Num(-1))>>}

\* the answers to the export request of a voucher
VoucherReplies ==
    FailedReplies
    \cup {Xml(Xml2Js(ImportResultDocument))}
    \cup {Xml(Xml2Js(ExportDocument(<<VoucherMessage(q)>>))) : q \in FetchedEntries}

Names == {Undefined, SomeName}
Parents == {Undefined, Lit("Sundry Debtors")}
OpeningBalances == {Undefined, Obj([amount |-> Num(1), isBillWise |-> Bool(TRUE)])}

LedgerDatas ==
    {Obj([name |-> n, parent |-> p, openingBalance |-> b]) :
        n \in Names, p \in Parents, b \in OpeningBalances}

LedgerUpdates ==
    {Obj([parent |-> p, alias |-> a]) : p \in Parents, a \in {Undefined, Lit("AC")}}

\* a ledger as the remote end exports it, with or without its PARENT tag
LedgerMessage(withParent) ==
    Element("TALLYMESSAGE", <<>>,
        <<Leaf("NAME", <<"A", "&", "amp;">>)>>
        \o (IF withParent THEN <<Leaf("PARENT", <<"Sundry Debtors">>)>> ELSE <<>>)
        \o <<Leaf("OPENINGBALANCE", <<"2">>), Leaf("ISBILLWISEON", <<"Yes">>)>>)

\* the answers to the export request of a ledger
LedgerReplies ==
    FailedReplies
    \cup {Xml(Xml2Js(ImportResultDocument)),
          Xml(Xml2Js(ExportDocument(<<Leaf("TALLYMESSAGE", <<>>)>>)))}
    \cup {Xml(Xml2Js(ExportDocument(<<LedgerMessage(b)>>))) : b \in BOOLEAN}

BaseUnits == {Undefined, Lit("Nos")}

StockDatas ==
    {Obj([name |-> n, parent |-> p, baseUnits |-> u]) :
        n \in Names, p \in Parents, u \in BaseUnits}

StockUpdates == {Obj([parent |-> p, baseUnits |-> u]) : p \in Parents, u \in BaseUnits}

\* a stock item as the remote end exports it
StockMessage(withParent, withUnits) ==
    Element("TALLYMESSAGE", <<>>,
        <<Leaf("NAME", <<"A", "&", "amp;">>)>>
        \o (IF withParent THEN <<Leaf("PARENT", <<"Primary">>)>> ELSE <<>>)
        \o (IF withUnits THEN <<Leaf("BASEUNITS", <<"Nos">>)>> ELSE <<>>)
        \o <<Leaf("CLOSINGBALANCE", <<"2">>)>>)

\* the answers to the export request of a stock item
StockReplies ==
    FailedReplies
    \cup {Xml(Xml2Js(ImportResultDocument))}
    \cup {Xml(Xml2Js(ExportDocument(<<StockMessage(p, u)>>))) : p \in BOOLEAN, u \in BOOLEAN}

CompanyDatas == {Obj([name |-> n, mailingName |-> m]) : n \in Names, m \in {Undefined, Lit("AC")}}

---------------------------------------------------------------------------
(* The calls                                                               *)

Init ==
    /\ env \in TallyCompanies
    /\ pc = "idle"
    /\ call = [op |-> "none"]
    /\ built = <<>>
    /\ sent = <<>>
    /\ outcome = Pending
    /\ connector = TallyConnector(Undefined)

\* The remote end answers the requests it receives and no others.  Whether a
\* call Op issues one more request is read off the call itself, run with the
\* replies so far and every later request unanswered.
Unanswered == TransportFailure("other")

Pad(replies) == replies \o <<Unanswered, Unanswered, Unanswered, Unanswered>>

\* answers[i] is the set of replies the i-th request of the call may get
Extend(Op(_), answers, prefixes) ==
    UNION {IF Len(Op(Pad(q)).sent) > Len(q)
           THEN {q \o <<r>> : r \in answers[Len(q) + 1]}
           ELSE {q} : q \in prefixes}

\* the runs of a call that issues at most four requests, each with the
\* replies its requests got
Calls(Op(_), answers) ==
    {[replies |-> q, run |-> Op(Pad(q))] :
        q \in Extend(Op, answers, Extend(Op, answers,
                 Extend(Op, answers, Extend(Op, answers, {<<>>}))))}

\* the call settles: what it was given, the replies to its requests, what it
\* built and sent, how it ended
Settle(op, args, replies, run) ==
    /\ pc' = "done"
    /\ call' = [op |-> op, args |-> args, replies |-> replies]
    /\ built' = run.built
    /\ sent' = run.sent
    /\ outcome' = run.outcome
    /\ UNCHANGED <<env, connector>>

\* the host program sets or clears TALLY_COMPANY between calls
SetTallyCompany ==
    /\ pc = "idle"
    /\ \E company \in TallyCompanies : env' = company
    /\ UNCHANGED <<pc, call, built, sent, outcome, connector>>

\* the caller has consumed the outcome
Return ==
    /\ pc = "done"
    /\ pc' = "idle"
    /\ call' = [op |-> "none"]
    /\ built' = <<>>
    /\ sent' = <<>>
    /\ outcome' = Pending
    /\ UNCHANGED <<env, connector>>

CallCreateVoucher ==
    /\ pc = "idle"
    /\ \E voucherData \in Vouchers :
           \E c \in Calls(LAMBDA q : CreateVoucher(voucherData, q, env), <<ImportReplies>>) :
               Settle("createVoucher", [voucherData |-> voucherData], c.replies, c.run)

CallUpdateVoucher ==
    /\ pc = "idle"
    /\ \E voucherNumber \in VoucherNumbers, voucherType \in VoucherTypes,
          updates \in VoucherUpdates :
           \E c \in Calls(LAMBDA q : UpdateVoucher(voucherNumber, voucherType, updates, q, env),
                          <<VoucherReplies, ImportReplies>>) :
               Settle("updateVoucher",
                      [voucherNumber |-> voucherNumber, voucherType |-> voucherType,
                       updates |-> updates],
                      c.replies, c.run)

CallCreateLedger ==
    /\ pc = "idle"
    /\ \E ledgerData \in LedgerDatas :
           \E c \in Calls(LAMBDA q : CreateLedger(ledgerData, q, env), <<ImportReplies>>) :
               Settle("createLedger", [ledgerData |-> ledgerData], c.replies, c.run)

CallUpdateLedger ==
    /\ pc = "idle"
    /\ \E ledgerName \in Names, updates \in LedgerUpdates :
           \E c \in Calls(LAMBDA q : UpdateLedger(ledgerName, updates, q, env),
                          <<LedgerReplies, ImportReplies>>) :
               Settle("updateLedger", [ledgerName |-> ledgerName, updates |-> updates],
                      c.replies, c.run)

CallCreateStockItem ==
    /\ pc = "idle"
    /\ \E stockData \in StockDatas :
           \E c \in Calls(LAMBDA q : CreateStockItem(stockData, q, env), <<ImportReplies>>) :
               Settle("createStockItem", [stockData |-> stockData], c.replies, c.run)

CallUpdateStockItem ==
    /\ pc = "idle"
    /\ \E stockItemName \in Names, updates \in StockUpdates :
           \E c \in Calls(LAMBDA q : UpdateStockItem(stockItemName, updates, q, env),
                          <<StockReplies, ImportReplies>>) :
               Settle("updateStockItem",
                      [stockItemName |-> stockItemName, updates |-> updates],
                      c.replies, c.run)

CallCreateCompany ==
    /\ pc = "idle"
    /\ \E companyData \in CompanyDatas :
           \E c \in Calls(LAMBDA q : CreateCompany(companyData, q, env), <<ImportReplies>>) :
               Settle("createCompany", [companyData |-> companyData], c.replies, c.run)

\* the operations that build and import an entity
Next ==
    \/ SetTallyCompany
    \/ CallCreateVoucher
    \/ CallUpdateVoucher
    \/ CallCreateLedger
    \/ CallUpdateLedger
    \/ CallCreateStockItem
    \/ CallUpdateStockItem
    \/ CallCreateCompany
    \/ Return

Spec == Init /\ [][Next]_vars

---------------------------------------------------------------------------
(* The calls that read, delete and probe                                   *)

\* a company as the remote end lists it
CompanyMessage(name) ==
    Element("TALLYMESSAGE", <<>>,
        <<Leaf("NAME", name), Leaf("MAILINGNAME", <<"AC">>), Leaf("ISACTIVE", <<"Yes">>)>>)

CompanyMessages == {CompanyMessage(<<>>), CompanyMessage(<<"Co">>)}

\* the answers to a list request: up to two entities of one kind
ListReplies ==
    {Xml(Xml2Js(ExportDocument(q))) :
        q \in SeqsUpTo(CompanyMessages, 2) \cup SeqsUpTo({LedgerMessage(TRUE)}, 2)
              \cup SeqsUpTo({VoucherMessage(<<Entry(SomeName, Num(1))>>)}, 2)}

\* the answers to an export request
ReadReplies ==
    FailedReplies
    \cup {Xml(Xml2Js(ImportResultDocument)), Xml(Xml2Js(EmptyErrorDocument))}
    \cup LedgerReplies \cup StockReplies \cup VoucherReplies \cup ListReplies

\* the answers to the requests a call issues after its first
FollowUpReplies ==
    {TransportFailure("ECONNREFUSED"),
     Xml(Xml2Js(ResponseEnvelope(<<Leaf("ERROR", ErrorText)>>))),
     Xml(Xml2Js(ExportDocument(<<CompanyMessage(<<"Co">>)>>)))}

ListFilters == {NoOptions, Obj([activeOnly |-> Bool(TRUE)])}
SummaryOptions == {NoOptions, Obj([groupByType |-> Bool(TRUE)])}
CompanyListOptions == {NoOptions, Obj([includeDetails |-> Bool(TRUE)])}
StatisticsOptions ==
    {NoOptions,
     Obj([includeLedgerCount |-> Bool(TRUE)]),
     Obj([includeLedgerCount |-> Bool(TRUE), includeVoucherCount |-> Bool(TRUE),
          includeStockCount |-> Bool(TRUE)])}
DeleteOptions == {NoOptions, Obj([force |-> Bool(TRUE)])}

\* the answers to the requests of a deletion: the transaction check, unless
\* forced, then the import
DeleteAnswers(options) ==
    IF Truthy(Get(options, "force"))
    THEN <<ImportReplies>>
    ELSE <<ReadReplies, ImportReplies>>

CallFetchLedger ==
    /\ pc = "idle"
    /\ \E ledgerName \in Names :
           \E c \in Calls(LAMBDA q : FetchLedger(ledgerName, NoOptions, q), <<ReadReplies>>) :
               Settle("fetchLedger", [ledgerName |-> ledgerName], c.replies, c.run)

\* a ledger as the remote end lists it
ListedLedger(name, parent, active) ==
    Element("TALLYMESSAGE", <<>>,
        <<Leaf("NAME", name), Leaf("PARENT", <<parent>>), Leaf("ISACTIVE", <<active>>)>>)

ListedLedgers ==
    {ListedLedger(<<"A", "B">>, "Sundry Debtors", "Yes"),
     ListedLedger(<<"a", "c">>, "Sundry Debtors", "No"),
     ListedLedger(<<"B", "c">>, "Bank Accounts", "Yes")}

\* the lists of ledgers of several groups the remote end answers with
LedgerListReplies == {Xml(Xml2Js(ExportDocument(q))) : q \in SeqsUpTo(ListedLedgers, 2)}

\* the filters of getLedgerList: each of group, activeOnly and nameContains
\* given or not
LedgerListFilters ==
    ListFilters
    \cup {Obj(group @@ active @@ named) :
             group \in {<<>>, [group |-> Lit("Sundry Debtors")]},
             active \in {<<>>, [activeOnly |-> Bool(TRUE)]},
             named \in {<<>>, [nameContains |-> Lit("B")],
                        [nameContains |-> Str(<<"A", "b">>)]}}

CallGetLedgerList ==
    /\ pc = "idle"
    /\ \E filters \in LedgerListFilters :
           \E c \in Calls(LAMBDA q : GetLedgerList(filters, q),
                          <<ReadReplies \cup LedgerListReplies>>) :
               Settle("getLedgerList", [filters |-> filters], c.replies, c.run)

CallGetLedgerBalance ==
    /\ pc = "idle"
    /\ \E ledgerName \in Names :
           \E c \in Calls(LAMBDA q : GetLedgerBalance(ledgerName, NoOptions, q),
                          <<ReadReplies>>) :
               Settle("getLedgerBalance", [ledgerName |-> ledgerName], c.replies, c.run)

CallDeleteLedger ==
    /\ pc = "idle"
    /\ \E ledgerName \in Names, options \in DeleteOptions :
           \E c \in Calls(LAMBDA q : DeleteLedger(ledgerName, options, q, env),
                          DeleteAnswers(options)) :
               Settle("deleteLedger", [ledgerName |-> ledgerName, options |-> options],
                      c.replies, c.run)

CallFetchVoucher ==
    /\ pc = "idle"
    /\ \E voucherNumber \in VoucherNumbers, voucherType \in VoucherTypes :
           \E c \in Calls(LAMBDA q : FetchVoucher(voucherNumber, voucherType, NoOptions, q),
                          <<ReadReplies>>) :
               Settle("fetchVoucher",
                      [voucherNumber |-> voucherNumber, voucherType |-> voucherType],
                      c.replies, c.run)

CallGetVoucherList ==
    /\ pc = "idle"
    /\ \E c \in Calls(LAMBDA q : GetVoucherList(NoOptions, q), <<ReadReplies>>) :
           Settle("getVoucherList", [filters |-> NoOptions], c.replies, c.run)

CallGetVoucherSummary ==
    /\ pc = "idle"
    /\ \E options \in SummaryOptions :
           \E c \in Calls(LAMBDA q : GetVoucherSummary(options, q), <<ReadReplies>>) :
               Settle("getVoucherSummary", [options |-> options], c.replies, c.run)

CallFetchStockItem ==
    /\ pc = "idle"
    /\ \E stockItemName \in Names :
           \E c \in Calls(LAMBDA q : FetchStockItem(stockItemName, NoOptions, q),
                          <<ReadReplies>>) :
               Settle("fetchStockItem", [stockItemName |-> stockItemName], c.replies, c.run)

CallGetStockItemList ==
    /\ pc = "idle"
    /\ \E filters \in ListFilters :
           \E c \in Calls(LAMBDA q : GetStockItemList(filters, q), <<ReadReplies>>) :
               Settle("getStockItemList", [filters |-> filters], c.replies, c.run)

CallGetStockBalance ==
    /\ pc = "idle"
    /\ \E stockItemName \in Names :
           \E c \in Calls(LAMBDA q : GetStockBalance(stockItemName, NoOptions, q),
                          <<ReadReplies>>) :
               Settle("getStockBalance", [stockItemName |-> stockItemName], c.replies, c.run)

CallGetStockSummary ==
    /\ pc = "idle"
    /\ \E c \in Calls(LAMBDA q : GetStockSummary(NoOptions, q), <<ReadReplies>>) :
           Settle("getStockSummary", [options |-> NoOptions], c.replies, c.run)

CallGetStockMovements ==
    /\ pc = "idle"
    /\ \E stockItemName \in Names :
           \E c \in Calls(LAMBDA q : GetStockMovements(stockItemName, NoOptions, q),
                          <<ReadReplies>>) :
               Settle("getStockMovements", [stockItemName |-> stockItemName],
                      c.replies, c.run)

CallDeleteStockItem ==
    /\ pc = "idle"
    /\ \E stockItemName \in Names, options \in DeleteOptions :
           \E c \in Calls(LAMBDA q : DeleteStockItem(stockItemName, options, q, env),
                          DeleteAnswers(options)) :
               Settle("deleteStockItem",
                      [stockItemName |-> stockItemName, options |-> options],
                      c.replies, c.run)

CallGetCompanyList ==
    /\ pc = "idle"
    /\ \E options \in CompanyListOptions :
           \E c \in Calls(LAMBDA q : GetCompanyList(options, q),
                          <<ReadReplies, FollowUpReplies, FollowUpReplies>>) :
               Settle("getCompanyList", [options |-> options], c.replies, c.run)

CallGetCompanyInfo ==
    /\ pc = "idle"
    /\ \E companyName \in Names :
           \E c \in Calls(LAMBDA q : GetCompanyInfo(companyName, q), <<ReadReplies>>) :
               Settle("getCompanyInfo", [companyName |-> companyName], c.replies, c.run)

CallGetFinancialYear ==
    /\ pc = "idle"
    /\ \E companyName \in Names :
           \E c \in Calls(LAMBDA q : GetFinancialYear(companyName, q), <<ReadReplies>>) :
               Settle("getFinancialYear", [companyName |-> companyName], c.replies, c.run)

CallGetCompanyStatistics ==
    /\ pc = "idle"
    /\ \E companyName \in Names, options \in StatisticsOptions :
           \E c \in Calls(LAMBDA q : GetCompanyStatistics(companyName, options, q),
                          <<ReadReplies, FollowUpReplies, FollowUpReplies,
                            FollowUpReplies>>) :
               Settle("getCompanyStatistics",
                      [companyName |-> companyName, options |-> options],
                      c.replies, c.run)

CallTestConnection ==
    /\ pc = "idle"
    /\ \E c \in Calls(LAMBDA q : TestConnection(q), <<ReadReplies>>) :
           Settle("testConnection", <<>>, c.replies, c.run)

\* sendRequest called by the host program itself: what it resolves with or
\* the Error it throws
CallSendRequest ==
    /\ pc = "idle"
    /\ \E reply \in ReadReplies :
           Settle("sendRequest", [xmlData |-> TestXml], <<reply>>,
                  With(SendRequest(reply), LAMBDA response :
                       Run(IF response.ok
                           THEN Returned(Obj([success |-> Bool(TRUE),
                                              data |-> response.data]))
                           ELSE Raised(response.message),
                           <<>>, <<TestXml>>)))

NextRead ==
    \/ SetTallyCompany
    \/ CallSendRequest
    \/ CallFetchLedger
    \/ CallGetLedgerList
    \/ CallGetLedgerBalance
    \/ CallDeleteLedger
    \/ CallFetchVoucher
    \/ CallGetVoucherList
    \/ CallGetVoucherSummary
    \/ CallFetchStockItem
    \/ CallGetStockItemList
    \/ CallGetStockBalance
    \/ CallGetStockSummary
    \/ CallGetStockMovements
    \/ CallDeleteStockItem
    \/ CallGetCompanyList
    \/ CallGetCompanyInfo
    \/ CallGetFinancialYear
    \/ CallGetCompanyStatistics
    \/ CallTestConnection
    \/ Return

SpecRead == Init /\ [][NextRead]_vars

---------------------------------------------------------------------------
(* Building the entries of a voucher and interpreting them again           *)

\* buildVoucherXml on a voucher with the entries, the message parsed as the
\* connector parses it, and _parseLedgerEntries on the LEDGERENTRIES.LIST of
\* the voucher, as _parseVoucherResponse calls it
BuildThenParseEntries(ledgerEntries) ==
    With(BuildVoucherXml(VoucherData(Lit("Sales"), SomeDate, Arr(ledgerEntries))),
         LAMBDA voucherXml :
         Run(Returned(ParseLedgerEntries(
                 Or(Get(Xml2JsNode(voucherXml.kids[1]), "LEDGERENTRIES.LIST"), Arr(<<>>)))),
             <<voucherXml>>, <<>>))

\* entries with non-zero amounts of both signs, and names that are empty or
\* hold characters the builder escapes
RoundTripEntries ==
    {Entry(SomeName, a) : a \in Amounts \ {Num(0)}}
    \cup {Entry(EmptyStr, Num(1)), Entry(Str(<<"<", "B", ">">>), Num(-1))}

CallBuildThenParseEntries ==
    /\ pc = "idle"
    /\ \E ledgerEntries \in SeqsUpTo(RoundTripEntries, MaxEntries) :
           Settle("buildThenParseEntries", [ledgerEntries |-> ledgerEntries], <<>>,
                  BuildThenParseEntries(ledgerEntries))

\* The stub transport of the ledger round trip: it answers with an export
\* document whose TALLYMESSAGE holds the field elements of the LEDGER the
\* builder wrote, text as written.
EchoFields(message) ==
    ExportDocument(<<Element("TALLYMESSAGE", <<>>, message.kids[1].kids)>>)

\* buildLedgerXml, the stub's answer parsed as the connector parses it, and
\* _parseLedgerResponse on the tree
BuildThenParseLedger(ledgerData) ==
    With(BuildLedgerXml(ledgerData), LAMBDA ledgerXml :
         Run(Returned(ParseLedgerResponse(Xml2Js(EchoFields(ledgerXml)))),
             <<ledgerXml>>, <<>>))

\* texts with every reserved character, with an entity spelled out, plain
ReservedText == Str(<<"<", "B", ">", "&", "\"", "'">>)
RoundTripTexts == {SomeName, ReservedText, Str(<<"&", "amp;", "lt;">>), Lit("Sundry Debtors")}

\* valid ledgers: name and parent non-empty, alias absent, empty or given
RoundTripLedgers ==
    {Obj([name |-> n, parent |-> p, alias |-> a, openingBalance |-> b]) :
        n \in RoundTripTexts, p \in RoundTripTexts,
        a \in {Undefined, EmptyStr} \cup RoundTripTexts, b \in OpeningBalances}

CallBuildThenParseLedger ==
    /\ pc = "idle"
    /\ \E ledgerData \in RoundTripLedgers :
           Settle("buildThenParseLedger", [ledgerData |-> ledgerData], <<>>,
                  BuildThenParseLedger(ledgerData))

NextRoundTrip ==
    \/ CallBuildThenParseEntries
    \/ CallBuildThenParseLedger
    \/ Return

SpecRoundTrip == Init /\ [][NextRoundTrip]_vars

---------------------------------------------------------------------------
(* escapeXml on its own                                                    *)

\* the longest text escapeXml is given, in tokens
MaxLen == 3

\* the five reserved characters, a letter, and two entity names spelled out
Alphabet == {"&", "<", ">", "\"", "'", "A", "amp;", "lt;"}

Texts == {Str(q) : q \in SeqsUpTo(Alphabet, MaxLen)}

NonStrings == {Undefined, NaN, Num(0), Num(5), Bool(TRUE), Bool(FALSE), NoOptions}

CallEscapeXml ==
    /\ pc = "idle"
    /\ \E text \in Texts \cup NonStrings :
           Settle("escapeXml", [text |-> text], <<>>,
                  Run(Returned(EscapeXml(text)), <<>>, <<>>))

NextEscape ==
    \/ CallEscapeXml
    \/ Return

SpecEscape == Init /\ [][NextEscape]_vars

---------------------------------------------------------------------------
(* The message builders called on their own                                *)

\* the string a builder returns, as the document it spells
Document(tree) == [t |-> "xml", tree |-> tree]

\* the builders of XmlBuilder by name; tallyCompany is
\* process.env.TALLY_COMPANY at the time of the call
Built(name, args, tallyCompany) ==
    CASE name = "buildLedgerXml" -> BuildLedgerXml(args.ledgerData)
      [] name = "buildVoucherXml" -> BuildVoucherXml(args.voucherData)
      [] name = "buildStockItemXml" -> BuildStockItemXml(args.stockData)
      [] name = "buildCompanyXml" -> BuildCompanyXml(args.companyData)
      [] name = "buildGroupXml" -> BuildGroupXml(args.groupData)
      [] name = "buildExportRequest" -> BuildExportRequest(args.reportName, args.filters)
      [] name = "buildCollectionRequest" ->
             BuildCollectionRequest(args.collection, args.filters)
      [] OTHER -> BuildImportRequest(args.dataXml, args.options, tallyCompany)

\* the builder returns: the document is what the call built and its value
Build(name, args) ==
    Settle(name, args, <<>>,
           With(Built(name, args, env), LAMBDA xml :
                Run(Returned(Document(xml)), <<xml>>, <<>>)))

\* caller's texts: plain, with an ampersand, with every reserved character
BuilderTexts == {Lit("Sundry Debtors"), SomeName, ReservedText}

BuilderLedgers ==
    {Obj([name |-> n, parent |-> p, alias |-> a, openingBalance |-> b]) :
        n \in BuilderTexts, p \in BuilderTexts, a \in {Undefined, ReservedText},
        b \in OpeningBalances}

\* entries with and without a bill reference of the caller's
BuilderEntries ==
    {Entry(SomeName, Num(1)),
     Obj([ledgerName |-> ReservedText, amount |-> Num(-1),
          billName |-> ReservedText, billType |-> Lit("Agst Ref")]),
     Obj([ledgerName |-> SomeName, amount |-> Num(-1),
          billName |-> Lit("B1"), billType |-> Str(<<"New", "&", "<", "Ref", ">">>)])}

BuilderVouchers ==
    {Obj([voucherType |-> t, date |-> SomeDate, narration |-> n,
          ledgerEntries |-> Arr(q)]) :
        t \in {Lit("Sales"), ReservedText}, n \in {Undefined, ReservedText},
        q \in SeqsUpTo(BuilderEntries, 2)}

BuilderStockItems ==
    {Obj([name |-> n, parent |-> p, baseUnits |-> u]) :
        n \in BuilderTexts, p \in BuilderTexts, u \in {Lit("Nos"), ReservedText}}

BuilderCompanies ==
    {Obj([name |-> n, mailingName |-> m, address |-> a]) :
        n \in BuilderTexts, m \in {Undefined, ReservedText}, a \in {Undefined, ReservedText}}

BuilderGroups == {Obj([name |-> n, parent |-> p]) : n \in BuilderTexts, p \in BuilderTexts}

ReportNames == {Lit("Ledger Details"), SomeName, ReservedText}

\* filters of the caller's: none, a plain tag, a tag that is a reserved character
BuilderFilters ==
    {<<>>} \cup {<<Filter(k, v)>> : k \in {"LEDGERNAME", "<"}, v \in BuilderTexts}

\* the options of buildImportRequest: none, a report name, a company name
ImportOptions ==
    {NoOptions, Obj([reportName |-> ReservedText]), Obj([companyName |-> EmptyStr]),
     Obj([companyName |-> Undefined]), Obj([companyName |-> SomeName]),
     Obj([reportName |-> Lit("All Masters"), companyName |-> Lit("Co")])}

ImportedData ==
    {BuildGroupXml(Obj([name |-> SomeName, parent |-> Lit("Primary")])),
     DeleteXml("LEDGER", <<Attr("NAME", <<"A">>)>>, <<>>)}

CallBuildLedgerXml ==
    /\ pc = "idle"
    /\ \E ledgerData \in BuilderLedgers :
           Build("buildLedgerXml", [ledgerData |-> ledgerData])

CallBuildVoucherXml ==
    /\ pc = "idle"
    /\ \E voucherData \in BuilderVouchers :
           Build("buildVoucherXml", [voucherData |-> voucherData])

CallBuildStockItemXml ==
    /\ pc = "idle"
    /\ \E stockData \in BuilderStockItems :
           Build("buildStockItemXml", [stockData |-> stockData])

CallBuildCompanyXml ==
    /\ pc = "idle"
    /\ \E companyData \in BuilderCompanies :
           Build("buildCompanyXml", [companyData |-> companyData])

CallBuildGroupXml ==
    /\ pc = "idle"
    /\ \E groupData \in BuilderGroups :
           Build("buildGroupXml", [groupData |-> groupData])

CallBuildExportRequest ==
    /\ pc = "idle"
    /\ \E reportName \in ReportNames, filters \in BuilderFilters :
           Build("buildExportRequest", [reportName |-> reportName, filters |-> filters])

CallBuildCollectionRequest ==
    /\ pc = "idle"
    /\ \E collection \in ReportNames, filters \in BuilderFilters :
           Build("buildCollectionRequest", [collection |-> collection, filters |-> filters])

CallBuildImportRequest ==
    /\ pc = "idle"
    /\ \E dataXml \in ImportedData, options \in ImportOptions :
           Build("buildImportRequest", [dataXml |-> dataXml, options |-> options])

NextBuild ==
    \/ SetTallyCompany
    \/ CallBuildLedgerXml
    \/ CallBuildVoucherXml
    \/ CallBuildStockItemXml
    \/ CallBuildCompanyXml
    \/ CallBuildGroupXml
    \/ CallBuildExportRequest
    \/ CallBuildCollectionRequest
    \/ CallBuildImportRequest
    \/ Return

SpecBuild == Init /\ [][NextBuild]_vars

---------------------------------------------------------------------------
(* The interpreters on the trees the parser hands over                     *)

\* the LEDGERENTRIES.LIST elements an exported entity may hold: as the builder
\* writes one, without BILLALLOCATIONS.LIST, and with one that has no NAME
EntryElements ==
    {LedgerEntryXml(Entry(SomeName, Num(-1))),
     Element("LEDGERENTRIES.LIST", <<>>,
         <<Leaf("LEDGERNAME", <<"A">>), Leaf("ISDEEMEDPOSITIVE", <<"Yes">>),
           Leaf("AMOUNT", <<"1">>)>>),
     Element("LEDGERENTRIES.LIST", <<>>,
         <<Leaf("LEDGERNAME", <<"A">>), Leaf("AMOUNT", <<"1">>),
           Element("BILLALLOCATIONS.LIST", <<>>, <<Leaf("AMOUNT", <<"1">>)>>)>>)}

FlagElements(text) ==
    <<Leaf("ISACTIVE", <<text>>), Leaf("ISBILLWISEON", <<text>>),
      Leaf("ISCOSTCENTRESON", <<text>>), Leaf("ISLOCKED", <<text>>)>>

\* exported entities: with or without a name, with the flag tags absent, 'Yes'
\* or 'No', with or without an entry; the one with nothing is an empty element
NodeElements ==
    {Element("TALLYMESSAGE", <<>>, name \o flags \o entries) :
        name \in {<<>>, <<Leaf("NAME", <<"A">>)>>},
        flags \in {<<>>, FlagElements("Yes"), FlagElements("No")},
        entries \in {<<>>} \cup {<<e>> : e \in EntryElements}}

Nodes == {Xml2JsNode(el) : el \in NodeElements}

\* the tree of an export answer whose TALLYMESSAGE is the payload
ExportTree(payload) ==
    Obj([ENVELOPE |->
        Obj([HEADER |-> Obj([VERSION |-> Lit("1"), STATUS |-> Lit("1")]),
             BODY |-> Obj([EXPORTDATA |->
                          Obj([REQUESTDATA |-> Obj([TALLYMESSAGE |-> payload])])])])])

\* error-free trees: a lone entity, an array of one, an array of two, and
\* answers without EXPORTDATA, without REQUESTDATA content, without TALLYMESSAGE
ResponseTrees ==
    {ExportTree(n) : n \in Nodes}
    \cup {ExportTree(Arr(<<n>>)) : n \in Nodes}
    \cup {ExportTree(Arr(<<n, m>>)) : n \in Nodes, m \in {EmptyStr, Xml2JsNode(LedgerMessage(TRUE))}}
    \cup {Xml2Js(ImportResultDocument), Xml2Js(ExportDocument(<<>>)),
          Xml2Js(ExportDocument(<<Leaf("DESC", <<"x">>)>>))}

Interpreters ==
    {"LedgerService._parseLedgerResponse", "LedgerService._parseLedgerListResponse",
     "LedgerService._parseLedgerBalanceResponse",
     "LedgerService._parseLedgerTransactionsResponse",
     "VoucherService._parseVoucherResponse", "VoucherService._parseVoucherListResponse",
     "VoucherService._parseVoucherSummaryResponse",
     "StockItemService._parseStockItemResponse",
     "StockItemService._parseStockItemListResponse",
     "StockItemService._parseStockBalanceResponse",
     "StockItemService._parseStockSummaryResponse",
     "StockItemService._parseStockMovementsResponse",
     "CompanyService._parseCompanyResponse", "CompanyService._parseCompanyListResponse",
     "CompanyService._parseFinancialYearResponse",
     "CompanyService._parseCompanyStatisticsResponse"}

Interpreted(name, responseData) ==
    CASE name = "LedgerService._parseLedgerResponse" -> ParseLedgerResponse(responseData)
      [] name = "LedgerService._parseLedgerListResponse" ->
             ParseLedgerListResponse(responseData)
      [] name = "LedgerService._parseLedgerBalanceResponse" ->
             ParseLedgerBalanceResponse(responseData)
      [] name = "LedgerService._parseLedgerTransactionsResponse" ->
             ParseLedgerTransactionsResponse(responseData)
      [] name = "VoucherService._parseVoucherResponse" -> ParseVoucherResponse(responseData)
      [] name = "VoucherService._parseVoucherListResponse" ->
             ParseVoucherListResponse(responseData)
      [] name = "VoucherService._parseVoucherSummaryResponse" ->
             ParseVoucherSummaryResponse(responseData, Bool(TRUE))
      [] name = "StockItemService._parseStockItemResponse" ->
             ParseStockItemResponse(responseData)
      [] name = "StockItemService._parseStockItemListResponse" ->
             ParseStockItemListResponse(responseData)
      [] name = "StockItemService._parseStockBalanceResponse" ->
             ParseStockBalanceResponse(responseData)
      [] name = "StockItemService._parseStockSummaryResponse" ->
             ParseStockSummaryResponse(responseData)
      [] name = "StockItemService._parseStockMovementsResponse" ->
             ParseStockMovementsResponse(responseData)
      [] name = "CompanyService._parseCompanyResponse" -> ParseCompanyResponse(responseData)
      [] name = "CompanyService._parseCompanyListResponse" ->
             ParseCompanyListResponse(responseData)
      [] name = "CompanyService._parseFinancialYearResponse" ->
             ParseFinancialYearResponse(responseData)
      [] OTHER -> ParseCompanyStatisticsResponse(responseData)

CallInterpreter ==
    /\ pc = "idle"
    /\ \E name \in Interpreters, responseData \in ResponseTrees :
           Settle(name, [responseData |-> responseData], <<>>,
                  Run(Returned(Interpreted(name, responseData)), <<>>, <<>>))

\* how many voucher or stock nodes a summary answer carries at most
MaxItems == 2

\* the aggregate tags a summary report may carry beside its nodes
AggregateTags ==
    {<<>>,
     <<Leaf("TOTALCOUNT", <<"5">>), Leaf("TOTALAMOUNT", <<"7">>),
       Leaf("AVERAGEAMOUNT", <<"3">>)>>,
     <<Leaf("TOTALCOUNT", <<"1">>), Leaf("TOTALAMOUNT", <<"2">>),
       Leaf("AVERAGEAMOUNT", <<"2">>)>>}

VoucherElements ==
    {Element("VOUCHER", <<>>,
         <<Leaf("VOUCHERTYPENAME", <<type>>), Leaf("VOUCHERNUMBER", <<"1">>),
           Element("LEDGERENTRIES.LIST", <<>>,
               <<Leaf("LEDGERNAME", <<"A">>), Leaf("ISDEEMEDPOSITIVE", <<"No">>),
                 Leaf("AMOUNT", <<"2">>)>>),
           Element("LEDGERENTRIES.LIST", <<>>,
               <<Leaf("LEDGERNAME", <<"B">>), Leaf("ISDEEMEDPOSITIVE", <<"Yes">>),
                 Leaf("AMOUNT", <<"2">>)>>)>>) :
        type \in {"Sales", "Payment"}}

\* the tree of a voucher summary answer: aggregate tags, then voucher nodes
VoucherSummaryTree(aggregates, vouchers) ==
    ExportTree(Xml2JsNode(Element("TALLYMESSAGE", <<>>, aggregates \o vouchers)))

\* a stock node of a summary answer: the closing balance absent, positive,
\* negative, zero or not a number; the closing value absent or a number
StockElements ==
    {Element("STOCKITEMS", <<>>, <<Leaf("NAME", <<"A">>)>> \o quantity \o value) :
        quantity \in {<<>>} \cup {<<Leaf("CLOSINGBALANCE", <<q>>)>> :
                                     q \in {"2", "-1", "0", "x"}},
        value \in {<<>>} \cup {<<Leaf("CLOSINGVALUE", <<v>>)>> : v \in {"1", "-2"}}}

StockSummaryTree(stockItems) ==
    ExportTree(Xml2JsNode(Element("TALLYMESSAGE", <<>>, stockItems)))

\* the two summary interpreters on summary answers
CallSummaryInterpreter ==
    /\ pc = "idle"
    /\ \/ \E aggregates \in AggregateTags, vouchers \in SeqsUpTo(VoucherElements, MaxItems),
             groupByType \in {Bool(TRUE), Bool(FALSE)} :
               Settle("VoucherService._parseVoucherSummaryResponse",
                      [responseData |-> VoucherSummaryTree(aggregates, vouchers),
                       groupByType |-> groupByType], <<>>,
                      Run(Returned(ParseVoucherSummaryResponse(
                              VoucherSummaryTree(aggregates, vouchers), groupByType)),
                          <<>>, <<>>))
       \/ \E stockItems \in SeqsUpTo(StockElements, MaxItems) :
               Settle("StockItemService._parseStockSummaryResponse",
                      [responseData |-> StockSummaryTree(stockItems)], <<>>,
                      Run(Returned(ParseStockSummaryResponse(StockSummaryTree(stockItems))),
                          <<>>, <<>>))

\* a ledger entry of a listed voucher: an amount with its flag, or no amount
ListedEntries ==
    {Element("LEDGERENTRIES.LIST", <<>>,
         <<Leaf("LEDGERNAME", <<"A">>), Leaf("ISDEEMEDPOSITIVE", <<flag>>),
           Leaf("AMOUNT", <<amount>>)>>) :
        flag \in {"Yes", "No"}, amount \in {"1", "2"}}
    \cup {Element("LEDGERENTRIES.LIST", <<>>, <<Leaf("LEDGERNAME", <<"A">>)>>)}

ListedVoucher(entries) ==
    Element("TALLYMESSAGE", <<>>,
        <<Leaf("VOUCHERNUMBER", <<"7">>), Leaf("VOUCHERTYPENAME", <<"Sales">>)>> \o entries)

\* the answers to a voucher list request: a lone voucher, or that voucher
\* followed by one of two entries
VoucherListTrees ==
    {ExportTree(Xml2JsNode(ListedVoucher(entries))) :
        entries \in SeqsUpTo(ListedEntries, MaxEntries)}
    \cup {ExportTree(Arr(<<Xml2JsNode(ListedVoucher(entries)),
                           Xml2JsNode(ListedVoucher(
                               <<LedgerEntryXml(Entry(SomeName, Num(2))),
                                 LedgerEntryXml(Entry(SomeName, Num(-2)))>>))>>)) :
             entries \in SeqsUpTo(ListedEntries, MaxEntries)}

\* the voucher list interpreter on lists of vouchers with entries
CallVoucherListInterpreter ==
    /\ pc = "idle"
    /\ \E responseData \in VoucherListTrees :
           Settle("VoucherService._parseVoucherListResponse",
                  [responseData |-> responseData], <<>>,
                  Run(Returned(ParseVoucherListResponse(responseData)), <<>>, <<>>))

NextInterp ==
    \/ CallInterpreter
    \/ CallSummaryInterpreter
    \/ CallVoucherListInterpreter
    \/ Return

SpecInterp == Init /\ [][NextInterp]_vars

---------------------------------------------------------------------------
(* getCompanyList with includeDetails, its detail requests in flight        *)
(* together                                                                 *)

\* how many companies the remote end lists at most
MaxCompanies == 2

\* a listed company: its name, possibly none, and a stamp that tells the
\* entries of a list apart
StampedCompany(name, stamp) ==
    Element("TALLYMESSAGE", <<>>,
        <<Leaf("NAME", name), Leaf("MAILINGNAME", <<"M">>), Leaf("LASTMODIFIED", <<stamp>>)>>)

CompanyListAnswers ==
    {Xml(Xml2Js(ExportDocument([i \in 1..Len(names) |-> StampedCompany(names[i], ToString(i))]))) :
        names \in SeqsUpTo({<<>>, <<"Co">>, <<"B">>}, MaxCompanies)}

\* the details the remote end answers a Company Details request with
CompanyDetails(state) ==
    Element("TALLYMESSAGE", <<>>,
        <<Leaf("NAME", <<"Co">>), Leaf("MAILINGNAME", <<"D">>), Leaf("STATE", <<state>>)>>)

DetailAnswers ==
    {TransportFailure("ECONNREFUSED"),
     Xml(Xml2Js(ResponseEnvelope(<<Leaf("ERROR", ErrorText)>>)))}
    \cup {Xml(Xml2Js(ExportDocument(<<CompanyDetails(state)>>))) : state \in {"KA", "MH"}}

\* what is known of the detail request of a listed company: none was sent,
\* it is in flight, or its answer
NotAsked == [kind |-> "none"]
InFlight == [kind |-> "in flight"]

\* the place of a result Promise.all has not received yet
Unsettled == [t |-> "unsettled"]

\* a collection of results in the order they arrive
SlotOfArrival(i, arrived) == arrived + 1

\* Promise.all: the result of the i-th promise is the i-th value, whenever
\* it arrives
SlotOf(i, arrived) == i

\* the list request is answered; the map callbacks run up to their first
\* await, each one sending its detail request, in the order of the list; the
\* callback of a company without a name fails at once and yields the company
StartGetCompanyList ==
    /\ pc = "idle"
    /\ \E reply \in CompanyListAnswers \cup {TransportFailure("ECONNREFUSED")} :
           LET options == Obj([includeDetails |-> Bool(TRUE)])
               exportXml == BuildCollectionRequest(Lit("Companies"), <<>>)
               response == SendRequest(reply)
               companies == ParseCompanyListResponse(response.data).a
               asked == [i \in 1..Len(companies) |-> Truthy(Get(companies[i], "name"))]
           IN  IF ~response.ok
               THEN Settle("getCompanyList", [options |-> options], <<reply>>,
                           Run(Raised(<<"Failed to get company list: ">> \o response.message),
                               <<>>, <<exportXml>>))
               ELSE /\ pc' = "awaiting"
                    /\ call' = [op |-> "getCompanyList",
                                args |-> [options |-> options],
                                replies |-> <<reply>>,
                                companies |-> companies,
                                answers |-> [i \in 1..Len(companies) |->
                                                IF asked[i] THEN InFlight ELSE NotAsked],
                                settled |-> [i \in 1..Len(companies) |->
                                                IF asked[i] THEN Unsettled ELSE companies[i]],
                                order |-> <<>>]
                    /\ sent' = <<exportXml>>
                               \o DetailsSent(companies, Len(companies),
                                              <<reply>> \o [i \in 1..Len(companies) |-> Unanswered])
                    /\ built' = <<>>
                    /\ outcome' = Pending
                    /\ UNCHANGED <<env, connector>>

\* one of the detail requests in flight is answered, whichever: its callback
\* resumes and settles its promise with the merged company, or with the
\* company as listed when the request failed
DetailAnswered ==
    /\ pc = "awaiting"
    /\ \E i \in 1..Len(call.companies), reply \in DetailAnswers :
           /\ call.answers[i] = InFlight
           /\ LET details == GetCompanyInfo(Get(call.companies[i], "name"), <<reply>>)
                  value == IF details.outcome.status = "returned"
                           THEN Spread(call.companies[i], Get(details.outcome.value, "data"))
                           ELSE call.companies[i]
              IN  call' = [call EXCEPT !.answers[i] = reply,
                                       !.settled[SlotOf(i, Len(call.order))] = value,
                                       !.order = Append(@, i)]
    /\ UNCHANGED <<env, pc, built, sent, outcome, connector>>

\* every promise has settled: Promise.all resolves and the call returns
FinishGetCompanyList ==
    /\ pc = "awaiting"
    /\ \A i \in 1..Len(call.companies) : call.answers[i] # InFlight
    /\ pc' = "done"
    /\ outcome' = Returned(Obj([success |-> Bool(TRUE),
                                data |-> Arr(call.settled),
                                count |-> Num(Len(call.settled))]))
    /\ UNCHANGED <<env, call, built, sent, connector>>

NextConcurrent ==
    \/ StartGetCompanyList
    \/ DetailAnswered
    \/ FinishGetCompanyList
    \/ Return

SpecConcurrent == Init /\ [][NextConcurrent]_vars

---------------------------------------------------------------------------
(* formatDate alone                                                        *)

\* the years whose dates are formatted: a common year and a leap year
Years == {2023, 2024}

IsLeapYear(y) == (y % 4 = 0 /\ y % 100 # 0) \/ y % 400 = 0

DaysInMonth(m, y) ==
    IF m = 2 THEN (IF IsLeapYear(y) THEN 29 ELSE 28)
    ELSE IF m \in {4, 6, 9, 11} THEN 30 ELSE 31

\* the valid calendar dates of a year, as (day, month)
DaysOfYear(y) == {dm \in (1..31) \X (1..12) : dm[1] <= DaysInMonth(dm[2], y)}

\* what callers pass for a date: a Date of that local day, or the text
\* 'DD-Mon-YYYY' the documentation uses
DateInputs(d, m, y) ==
    {DateOf(d, m, y), Str(<<PadStart2(d), "-", Months[m], "-", ToString(y)>>)}

CallFormatDate ==
    /\ pc = "idle"
    /\ \E y \in Years : \E dm \in DaysOfYear(y) : \E date \in DateInputs(dm[1], dm[2], y) :
           Settle("formatDate", [date |-> date], <<>>,
                  Run(Returned(FormatDate(date)), <<>>, <<>>))

NextDate ==
    \/ CallFormatDate
    \/ Return

SpecDate == Init /\ [][NextDate]_vars

---------------------------------------------------------------------------
(* The connector's configuration over its life                             *)

\* what callers put in a field of a configuration: a value, a falsy value, or
\* undefined
ConfigValues(field) ==
    CASE field = "host" -> {Lit("tally.local"), EmptyStr, Undefined}
      [] field = "port" -> {Num(9001), Lit("9002"), Num(0), Undefined}
      [] field = "timeout" -> {Num(45000), Num(0), Undefined}

\* the configuration objects: any of the fields present, any absent
Configs ==
    {Obj(f) : f \in UNION {{g \in [present -> UNION {ConfigValues(field) : field \in ConfigFields}] :
                               \A field \in present : g[field] \in ConfigValues(field)} :
                           present \in SUBSET ConfigFields}}

\* a connector has been constructed, with a configuration or with none
InitConfig ==
    /\ env \in TallyCompanies
    /\ \E config \in Configs \cup {Undefined} :
           /\ call = [op |-> "constructor", args |-> <<config>>, replies |-> <<>>]
           /\ connector = TallyConnector(config)
    /\ pc = "done"
    /\ built = <<>>
    /\ sent = <<>>
    /\ outcome = Returned(Undefined)

CallUpdateConfig ==
    /\ pc = "idle"
    /\ \E config \in Configs \cup {Undefined} :
           LET run == UpdateConfig(connector, config)
           IN  /\ connector' = run.this
               /\ call' = [op |-> "updateConfig", args |-> <<config>>, replies |-> <<>>]
               /\ outcome' = run.outcome
    /\ pc' = "done"
    /\ built' = <<>>
    /\ sent' = <<>>
    /\ UNCHANGED env

CallGetConnectionInfo ==
    /\ pc = "idle"
    /\ Settle("getConnectionInfo", <<>>, <<>>,
              Run(Returned(GetConnectionInfo(connector)), <<>>, <<>>))

NextConfig ==
    \/ CallUpdateConfig
    \/ CallGetConnectionInfo
    \/ Return

SpecConfig == InitConfig /\ [][NextConfig]_vars

---------------------------------------------------------------------------
(* Properties of the operations that build and import                      *)

RECURSIVE SignedSum(_)
\* the signed sum of the amounts of a sequence of entries, in hundredths
SignedSum(q) == IF q = <<>> THEN 0 ELSE Get(Head(q), "amount").n + SignedSum(Tail(q))

\* the ledger entries of a voucher, <<>> when it has no array of them
EntriesOf(voucherData) ==
    IF IsArray(Get(voucherData, "ledgerEntries"))
    THEN Get(voucherData, "ledgerEntries").a ELSE <<>>

\* type and date present, at least two entries, each with a ledger name and a
\* non-zero numeric amount
OtherwiseValid(voucherData) ==
    /\ Truthy(Get(voucherData, "voucherType"))
    /\ Truthy(Get(voucherData, "date"))
    /\ IsArray(Get(voucherData, "ledgerEntries"))
    /\ Len(EntriesOf(voucherData)) >= 2
    /\ \A i \in 1..Len(EntriesOf(voucherData)) :
           /\ Truthy(Get(EntriesOf(voucherData)[i], "ledgerName"))
           /\ Get(EntriesOf(voucherData)[i], "amount").t = "number"
           /\ Get(EntriesOf(voucherData)[i], "amount").n # 0

ValidationMessages ==
    {"Voucher type is required", "Voucher date is required",
     "Ledger entries are required and must be an array",
     "At least two ledger entries are required for a voucher",
     "Each ledger entry must have a ledger name",
     "Each ledger entry must have a non-zero amount",
     "Voucher debits and credits must balance"}

\* a request whose header announces an import
IsImportRequest(request) ==
    /\ request.tag = "ENVELOPE"
    /\ \E i \in 1..Len(request.kids[1].kids) :
           request.kids[1].kids[i] = Leaf("TALLYREQUEST", <<"Import Data">>)

NoImportSent == \A i \in 1..Len(sent) : ~IsImportRequest(sent[i])

CreatedVoucher == call.args.voucherData

\* C1: a voucher that is otherwise valid is accepted by createVoucher (its
\* message is built and its import request reaches the connector) if and
\* only if the absolute value of the signed sum of its amounts is at most
\* 0.01, one hundredth; outside that tolerance the call raises 'Voucher
\* debits and credits must balance', builds nothing and sends nothing.
C1_BalanceWithinTolerance ==
    (pc = "done" /\ call.op = "createVoucher" /\ OtherwiseValid(CreatedVoucher)) =>
        IF /\ SignedSum(EntriesOf(CreatedVoucher)) <= 1
           /\ SignedSum(EntriesOf(CreatedVoucher)) >= -1
        THEN /\ Len(built) = 1
             /\ Len(sent) = 1
             /\ IsImportRequest(sent[1])
             /\ outcome.message \notin {<<m>> : m \in ValidationMessages}
        ELSE /\ outcome = Raised(<<"Voucher debits and credits must balance">>)
             /\ built = <<>>
             /\ sent = <<>>

\* three valid entries whose sum is two hundredths: rejected, nothing sent
C1_Witness ==
    /\ pc = "done"
    /\ call.op = "createVoucher"
    /\ OtherwiseValid(CreatedVoucher)
    /\ Len(EntriesOf(CreatedVoucher)) = 3
    /\ SignedSum(EntriesOf(CreatedVoucher)) = 2
    /\ outcome.status = "raised"
    /\ sent = <<>>

\* the voucher updateVoucher assembles once the fetch has succeeded: the
\* entries of the update if it has any, those of the fetched record otherwise
MergedEntries ==
    Or(Get(call.args.updates, "ledgerEntries"),
       Get(ParseVoucherResponse(SendRequest(call.replies[1]).data), "ledgerEntries"))

FetchSucceeded == call.replies # <<>> /\ SendRequest(call.replies[1]).ok

\* C2: a voucher whose ledgerEntries sequence has fewer than two entries,
\* the empty sequence included, is refused with a validation error by
\* createVoucher and by updateVoucher, and no import request is sent.
C2_FewerThanTwoEntries ==
    /\ (/\ pc = "done"
        /\ call.op = "createVoucher"
        /\ IsArray(Get(CreatedVoucher, "ledgerEntries"))
        /\ Len(EntriesOf(CreatedVoucher)) < 2)
       => /\ outcome.status = "raised"
          /\ outcome.message \in {<<m>> : m \in ValidationMessages}
          /\ NoImportSent
    /\ (/\ pc = "done"
        /\ call.op = "updateVoucher"
        /\ FetchSucceeded
        /\ IsArray(MergedEntries)
        /\ Len(MergedEntries.a) < 2)
       => /\ outcome.status = "raised"
          /\ outcome.message \in {<<"Failed to update voucher: ", m>> : m \in ValidationMessages}
          /\ NoImportSent

\* an update without entries of its own, of a voucher fetched with one entry
C2_Witness ==
    /\ pc = "done"
    /\ call.op = "updateVoucher"
    /\ FetchSucceeded
    /\ Get(call.args.updates, "ledgerEntries") = Undefined
    /\ IsArray(MergedEntries)
    /\ Len(MergedEntries.a) = 1
    /\ outcome.status = "raised"
    /\ Len(sent) = 1

\* C3: a voucher with an entry whose amount is exactly zero, or whose ledger
\* name is missing, is refused by createVoucher with a validation error
\* before any XML is built, even when its entries balance.
C3_ZeroAmountOrNamelessEntry ==
    (/\ pc = "done"
     /\ call.op = "createVoucher"
     /\ \E i \in 1..Len(EntriesOf(CreatedVoucher)) :
            \/ Get(EntriesOf(CreatedVoucher)[i], "amount") = Num(0)
            \/ ~Truthy(Get(EntriesOf(CreatedVoucher)[i], "ledgerName")))
    => /\ outcome.status = "raised"
       /\ outcome.message \in {<<m>> : m \in ValidationMessages}
       /\ built = <<>>
       /\ sent = <<>>

\* three named entries that balance, one of them zero
C3_Witness ==
    /\ pc = "done"
    /\ call.op = "createVoucher"
    /\ Truthy(Get(CreatedVoucher, "voucherType"))
    /\ Truthy(Get(CreatedVoucher, "date"))
    /\ Len(EntriesOf(CreatedVoucher)) = 3
    /\ \A i \in 1..3 : Truthy(Get(EntriesOf(CreatedVoucher)[i], "ledgerName"))
    /\ \E i \in 1..3 : Get(EntriesOf(CreatedVoucher)[i], "amount") = Num(0)
    /\ SignedSum(EntriesOf(CreatedVoucher)) = 0
    /\ outcome = Raised(<<"Each ledger entry must have a non-zero amount">>)
    /\ built = <<>>

\* the entity element an import request carries
ImportedEntity(request) == request.kids[2].kids[1].kids[2].kids[1].kids[1]

\* the text of the child elements of an element that bear a tag
TextsOf(el, tag) == {el.kids[i].text : i \in {j \in 1..Len(el.kids) : el.kids[j].tag = tag}}

\* the values of the attributes of an element that bear a name
ValuesOf(el, name) ==
    {el.attrs[i].value : i \in {j \in 1..Len(el.attrs) : el.attrs[j].name = name}}

\* what a field that was not supplied renders as
Missing == {<<>>, <<"undefined">>}

HasRequiredFields(entity) ==
    CASE entity.tag = "LEDGER" ->
             /\ ValuesOf(entity, "NAME") \cap Missing = {}
             /\ TextsOf(entity, "PARENT") \cap Missing = {}
      [] entity.tag = "STOCKITEM" ->
             /\ ValuesOf(entity, "NAME") \cap Missing = {}
             /\ TextsOf(entity, "PARENT") \cap Missing = {}
             /\ TextsOf(entity, "BASEUNITS") \cap Missing = {}
      [] entity.tag = "COMPANY" -> ValuesOf(entity, "NAME") \cap Missing = {}
      [] entity.tag = "VOUCHER" ->
             /\ TextsOf(entity, "VOUCHERTYPENAME") \cap Missing = {}
             /\ TextsOf(entity, "DATE") \cap Missing = {}
      [] OTHER -> TRUE

\* C6: the connector never receives an import request whose entity lacks a
\* required field: ledger name or parent, stock item name, parent or base
\* units, company name, voucher type or date.
C6_ImportsCarryRequiredFields ==
    \A i \in 1..Len(sent) :
        IsImportRequest(sent[i]) => HasRequiredFields(ImportedEntity(sent[i]))

---------------------------------------------------------------------------
(* Properties of the operations that read                                  *)

\* the operations that interpret the response to a request
InterpretingOps ==
    {"fetchLedger", "getLedgerList", "getLedgerBalance", "fetchVoucher", "getVoucherList",
     "getVoucherSummary", "fetchStockItem", "getStockItemList", "getStockBalance",
     "getStockSummary", "getStockMovements", "getCompanyList", "getCompanyInfo",
     "getFinancialYear", "getCompanyStatistics"}

\* the text of the ERROR or LINEERROR tag of the body of a reply, <<>> when
\* the reply has no body or the body no such text
ErrorTextOf(reply) ==
    IF reply.kind # "xml" THEN <<>>
    ELSE IF Or(Get(ResponseBody(reply.tree), "ERROR"),
               Get(ResponseBody(reply.tree), "LINEERROR")).t = "string"
         THEN Or(Get(ResponseBody(reply.tree), "ERROR"),
                 Get(ResponseBody(reply.tree), "LINEERROR")).s
         ELSE <<>>

\* text occurs in message
Contains(message, text) ==
    \E k \in 1..(Len(message) - Len(text) + 1) : SubSeq(message, k, k + Len(text) - 1) = text

\* C4: when the body of a response carries an ERROR or LINEERROR tag with
\* text T, the operation that interprets the response raises an error whose
\* message carries T; it returns neither success nor a partial object.
C4_RemoteErrorRaised ==
    (pc = "done" /\ call.op \in InterpretingOps) =>
        \A i \in 1..Len(call.replies) :
            ErrorTextOf(call.replies[i]) # <<>> =>
                /\ outcome.status = "raised"
                /\ Contains(outcome.message, ErrorTextOf(call.replies[i]))

\* C5: no public operation returns when a request it issued has failed, be
\* it by a transport error, a parse error or a remote business error.
C5_NoSuccessAfterFailedRequest ==
    (pc = "done" /\ outcome.status = "returned") =>
        \A i \in 1..Len(call.replies) : SendRequest(call.replies[i]).ok

---------------------------------------------------------------------------
(* Properties of the builder and of the interpreters                       *)

BuiltEntries ==
    SelectSeq(built[1].kids[1].kids, LAMBDA kid : kid.tag = "LEDGERENTRIES.LIST")

\* C7: for ledger entries with non-zero amounts, buildVoucherXml writes for
\* each entry AMOUNT as the absolute value and ISDEEMEDPOSITIVE 'Yes' exactly
\* when the amount is positive, and _parseLedgerEntries on what was written
\* gives back the signed amount and the ledger name of every entry, in order.
C7_EntrySignRoundTrip ==
    (/\ pc = "done"
     /\ call.op = "buildThenParseEntries"
     /\ \A i \in 1..Len(call.args.ledgerEntries) :
            Get(call.args.ledgerEntries[i], "amount").n # 0)
    => /\ Len(BuiltEntries) = Len(call.args.ledgerEntries)
       /\ outcome.status = "returned"
       /\ outcome.value.t = "array"
       /\ Len(outcome.value.a) = Len(call.args.ledgerEntries)
       /\ \A i \in 1..Len(call.args.ledgerEntries) :
              /\ TextsOf(BuiltEntries[i], "AMOUNT") =
                     {IF Get(call.args.ledgerEntries[i], "amount").n < 0
                      THEN <<ToString(-Get(call.args.ledgerEntries[i], "amount").n)>>
                      ELSE <<ToString(Get(call.args.ledgerEntries[i], "amount").n)>>}
              /\ TextsOf(BuiltEntries[i], "ISDEEMEDPOSITIVE") =
                     {IF Get(call.args.ledgerEntries[i], "amount").n > 0
                      THEN <<"Yes">> ELSE <<"No">>}
              /\ Get(outcome.value.a[i], "amount") = Get(call.args.ledgerEntries[i], "amount")
              /\ Get(outcome.value.a[i], "ledgerName") =
                     Get(call.args.ledgerEntries[i], "ledgerName")

\* three entries of both signs, one of them named with a character the
\* builder escapes
C7_Witness ==
    /\ pc = "done"
    /\ call.op = "buildThenParseEntries"
    /\ Len(call.args.ledgerEntries) = 3
    /\ Get(call.args.ledgerEntries[1], "amount") = Num(2)
    /\ Get(call.args.ledgerEntries[2], "amount") = Num(-1)
    /\ Get(call.args.ledgerEntries[3], "amount") = Num(-1)
    /\ Get(call.args.ledgerEntries[2], "ledgerName") = SomeName
    /\ outcome.status = "returned"
    /\ Get(outcome.value.a[2], "amount") = Num(-1)

ListInterpreters ==
    {"LedgerService._parseLedgerListResponse", "VoucherService._parseVoucherListResponse",
     "StockItemService._parseStockItemListResponse",
     "StockItemService._parseStockMovementsResponse",
     "CompanyService._parseCompanyListResponse",
     "LedgerService._parseLedgerTransactionsResponse"}

\* the TALLYMESSAGE of the tree the interpreter was given
Payload == TallyMessageOf(ResponseBody(call.args.responseData))

\* C8: a list interpreter given a response whose payload is the lone node N
\* yields a sequence of one element, equal to what it yields for the array [N].
C8_LoneNodeAsArrayOfOne ==
    (pc = "done" /\ call.op \in ListInterpreters /\ Payload \in Nodes)
    => /\ outcome.value.t = "array"
       /\ Len(outcome.value.a) = 1
       /\ outcome.value = Interpreted(call.op, ExportTree(Arr(<<Payload>>)))

RECURSIVE Defined(_)
\* no undefined value in it, at any depth
Defined(v) ==
    CASE v.t = "undefined" -> FALSE
      [] v.t = "object" -> \A k \in DOMAIN v.o : Defined(v.o[k])
      [] v.t = "array" -> \A i \in 1..Len(v.a) : Defined(v.a[i])
      [] OTHER -> TRUE

\* the interpreters that return one domain object
ObjectInterpreters ==
    {"LedgerService._parseLedgerResponse", "LedgerService._parseLedgerBalanceResponse",
     "VoucherService._parseVoucherResponse", "VoucherService._parseVoucherSummaryResponse",
     "StockItemService._parseStockItemResponse",
     "StockItemService._parseStockBalanceResponse",
     "StockItemService._parseStockSummaryResponse",
     "CompanyService._parseCompanyResponse", "CompanyService._parseFinancialYearResponse",
     "CompanyService._parseCompanyStatisticsResponse"}

\* C9: on an error-free tree that lacks field tags, the EXPORTDATA/REQUESTDATA
\* wrapper or a child of BILLALLOCATIONS.LIST, an interpreter does not raise
\* and returns every field with its default: none is undefined or absent.
C9_DefaultsForMissingTags ==
    (pc = "done" /\ call.op \in Interpreters)
    => /\ outcome.status = "returned"
       /\ Defined(outcome.value)
       /\ call.op \in ObjectInterpreters =>
              outcome.value.t = "object" /\ DOMAIN outcome.value.o # {}

\* the tag a flag field is read from
FlagSource ==
    [isBillWise |-> "ISBILLWISEON", isCostCentre |-> "ISCOSTCENTRESON",
     isLocked |-> "ISLOCKED", isActive |-> "ISACTIVE"]

RECURSIVE FlagsAgree(_, _)
\* every flag field in the value, at any depth, is true exactly when the tag
\* it is read from holds 'Yes' in the node
FlagsAgree(v, node) ==
    CASE v.t = "object" ->
             \A k \in DOMAIN v.o :
                 IF k \in DOMAIN FlagSource
                 THEN v.o[k] = Bool(Get(node, FlagSource[k]) = Lit("Yes"))
                 ELSE FlagsAgree(v.o[k], node)
      [] v.t = "array" -> \A i \in 1..Len(v.a) : FlagsAgree(v.a[i], node)
      [] OTHER -> TRUE

\* C10: a flag field an interpreter produces (isBillWise, isCostCentre,
\* isLocked, isActive) is false when its tag is absent or 'No' and true only
\* when the tag holds 'Yes'.
C10_FlagsTrueOnlyForYes ==
    (pc = "done" /\ call.op \in Interpreters /\ Payload \in Nodes)
    => FlagsAgree(outcome.value, Payload)

---------------------------------------------------------------------------
(* Properties of the update operations                                     *)

UpdateOps == {"updateLedger", "updateVoucher", "updateStockItem"}

\* C11: every import request an update operation sends carries the message
\* the builder produced with the create directive replaced: its entity
\* element has ACTION "Alter" and no ACTION "Create", and is otherwise the
\* element that was built.
C11_UpdatesCarryAlter ==
    (pc = "done" /\ call.op \in UpdateOps) =>
        \A i \in 1..Len(sent) :
            IsImportRequest(sent[i]) =>
                /\ ValuesOf(ImportedEntity(sent[i]), "ACTION") = {<<"Alter">>}
                /\ [ImportedEntity(sent[i]) EXCEPT !.attrs = <<>>]
                       = [built[1].kids[1] EXCEPT !.attrs = <<>>]

---------------------------------------------------------------------------
(* Properties of the ledger round trip and of escaping                     *)

RoundTripLedger == call.args.ledgerData

C13_EscapeXmlInverse ==
    (pc = "done" /\ call.op = "escapeXml")
    => IF call.args.text.t # "string"
       THEN outcome = Returned(call.args.text)
       ELSE /\ outcome.status = "returned"
            /\ outcome.value.t = "string"
            /\ \A i \in 1..Len(outcome.value.s) :
                   /\ outcome.value.s[i] \notin {"<", ">", "\"", "'"}
                   /\ outcome.value.s[i] = "&" =>
                          /\ i < Len(outcome.value.s)
                          /\ outcome.value.s[i + 1] \in Entities
            /\ XmlDecode(outcome.value.s) = call.args.text.s

\* a text with an ampersand before a spelled-out entity name and a quote
C13_Witness ==
    /\ pc = "done"
    /\ call.op = "escapeXml"
    /\ call.args.text = Str(<<"&", "lt;", "\"">>)
    /\ outcome.value = Str(<<"&", "amp;", "lt;", "&", "quot;">>)

---------------------------------------------------------------------------
(* Properties of the message builders                                      *)

Builders ==
    {"buildLedgerXml", "buildVoucherXml", "buildStockItemXml", "buildCompanyXml",
     "buildGroupXml", "buildExportRequest", "buildImportRequest", "buildCollectionRequest"}

ReservedChars == {"&", "<", ">", "\"", "'"}

\* no reserved character in raw form: none of < > " ', and an ampersand only
\* at the head of an entity
Escaped(text) ==
    \A i \in 1..Len(text) :
        /\ text[i] \notin {"<", ">", "\"", "'"}
        /\ text[i] = "&" => (i < Len(text) /\ text[i + 1] \in Entities)

RECURSIVE EscapedThroughout(_)
\* the tag of the element is no reserved character, and its attribute values,
\* its character data and its children are escaped
EscapedThroughout(el) ==
    /\ el.tag \notin ReservedChars
    /\ Escaped(el.text)
    /\ \A i \in 1..Len(el.attrs) : Escaped(el.attrs[i].value)
    /\ \A i \in 1..Len(el.kids) : EscapedThroughout(el.kids[i])

\* C14: in the document a message builder returns, every text of the
\* caller's is in escaped form: no raw & < > " ' of a field of the caller's,
\* a voucher entry's billType, a report name and a filter's tag included.
C14_CallerTextsEscaped ==
    (pc = "done" /\ call.op \in Builders) => EscapedThroughout(built[1])

\* the elements of a document that bear a tag, at any depth
RECURSIVE ElementsOf(_, _)
ElementsOf(el, tag) ==
    (IF el.tag = tag THEN {el} ELSE {})
    \cup UNION {ElementsOf(el.kids[i], tag) : i \in 1..Len(el.kids)}

\* the company name the call was given
SuppliedCompany == Get(call.args.options, "companyName")

\* C15: buildImportRequest writes the scoping directive, a STATICVARIABLES
\* block holding SVCURRENTCOMPANY with the escaped name, if and only if the
\* call is given a company name; without one the request holds neither
\* element.
C15_ScopingIffCompanySupplied ==
    (pc = "done" /\ call.op = "buildImportRequest")
    => IF Truthy(SuppliedCompany)
       THEN ElementsOf(built[1], "STATICVARIABLES") =
                {Element("STATICVARIABLES", <<>>,
                     <<Leaf("SVCURRENTCOMPANY", Interp(EscapeXml(SuppliedCompany)))>>)}
       ELSE /\ ElementsOf(built[1], "STATICVARIABLES") = {}
            /\ ElementsOf(built[1], "SVCURRENTCOMPANY") = {}

\* C16: a builder call is a function of its arguments: the document it
\* returns is the one it returns for the same arguments under any value of
\* the TALLY_COMPANY environment variable.
C16_BuildersDependOnArgumentsOnly ==
    (pc = "done" /\ call.op \in Builders)
    => \A company \in TallyCompanies :
           /\ built = <<Built(call.op, call.args, company)>>
           /\ outcome = Returned(Document(Built(call.op, call.args, company)))

---------------------------------------------------------------------------
(* Properties of the errors that reach the caller                          *)

ErrorKinds ==
    {"connection refused", "timeout", "status", "no response", "parse failure",
     "remote error"}

\* the kind of failure a reply is, "none" for an answer that is no failure
\* of these kinds
KindOf(reply) ==
    CASE reply.kind = "unparsable" -> "parse failure"
      [] reply.kind = "transport" /\ reply.code = "ECONNREFUSED" -> "connection refused"
      [] reply.kind = "transport" /\ reply.code = "ETIMEDOUT" -> "timeout"
      [] reply.kind = "transport" /\ reply.code = "response" -> "status"
      [] reply.kind = "transport" /\ reply.code = "request" -> "no response"
      [] reply.kind = "xml" /\ ErrorTextOf(reply) # <<>> -> "remote error"
      [] OTHER -> "none"

\* how the message of each kind begins, after the prefix of sendRequest
FormOf ==
    [k \in ErrorKinds |->
        CASE k = "connection refused" -> "Cannot connect to TallyPrime at "
          [] k = "timeout" -> "Request timed out after "
          [] k = "status" -> "TallyPrime server error: "
          [] k = "no response" ->
                 "No response received from TallyPrime. Please check if the service is running."
          [] k = "parse failure" -> "XML parsing error: "
          [] OTHER -> "Tally error: "]

\* C17: sendRequest throws for a refused connection, a timeout, a non-2xx
\* status, a missing response, an XML parse failure and a remote business
\* error, each with a message of the form of its kind and of no other kind.
C17_ErrorKindsDistinguishable ==
    (pc = "done" /\ call.op = "sendRequest" /\ KindOf(call.replies[1]) \in ErrorKinds)
    => /\ outcome.status = "raised"
       /\ Len(outcome.message) >= 2
       /\ outcome.message[1] = "TallyPrime request failed: "
       /\ \A k \in ErrorKinds :
              outcome.message[2] = FormOf[k] <=> k = KindOf(call.replies[1])

\* a body that is no XML: reported as a parse failure
C17_Witness ==
    /\ pc = "done"
    /\ call.op = "sendRequest"
    /\ call.replies = <<Unparsable>>
    /\ outcome.status = "raised"
    /\ outcome.message[2] = "XML parsing error: "

\* how the message of the Error a service operation throws begins
PrefixOf ==
    [fetchLedger |-> "Failed to fetch ledger: ",
     getLedgerList |-> "Failed to fetch ledger list: ",
     getLedgerBalance |-> "Failed to get ledger balance: ",
     deleteLedger |-> "Failed to delete ledger: ",
     fetchVoucher |-> "Failed to fetch voucher: ",
     getVoucherList |-> "Failed to fetch voucher list: ",
     getVoucherSummary |-> "Failed to get voucher summary: ",
     fetchStockItem |-> "Failed to fetch stock item: ",
     getStockItemList |-> "Failed to fetch stock item list: ",
     getStockBalance |-> "Failed to get stock balance: ",
     getStockSummary |-> "Failed to get stock summary: ",
     getStockMovements |-> "Failed to get stock movements: ",
     deleteStockItem |-> "Failed to delete stock item: ",
     getCompanyList |-> "Failed to get company list: ",
     getCompanyInfo |-> "Failed to get company info: ",
     getFinancialYear |-> "Failed to get financial year info: ",
     getCompanyStatistics |-> "Failed to get company statistics: "]

\* C18: when a request of a service operation is answered with a remote
\* business error of text T, the operation throws an Error whose message
\* begins with the prefix that names the operation called, also when the
\* request was issued by an operation nested in it, and holds T as it came.
C18_OutermostPrefixAndErrorText ==
    (pc = "done" /\ call.op \in DOMAIN PrefixOf)
    => \A i \in 1..Len(call.replies) :
           ErrorTextOf(call.replies[i]) # <<>> =>
               /\ outcome.status = "raised"
               /\ outcome.message[1] = PrefixOf[call.op]
               /\ Contains(outcome.message, ErrorTextOf(call.replies[i]))

---------------------------------------------------------------------------
(* Properties of the summary interpreters                                  *)

\* C19: the voucher summary interpreter computes its aggregates from the
\* voucher nodes of the response and not from the aggregate tags: a response
\* with the same voucher nodes and other TOTALCOUNT, TOTALAMOUNT and
\* AVERAGEAMOUNT tags gets the same summary, and the count it reports is the
\* number of voucher nodes.
C19_SummaryFromVoucherNodes ==
    (/\ pc = "done"
     /\ call.op = "VoucherService._parseVoucherSummaryResponse"
     /\ "groupByType" \in DOMAIN call.args)
    => \A aggregates \in AggregateTags, vouchers \in SeqsUpTo(VoucherElements, MaxItems) :
           call.args.responseData = VoucherSummaryTree(aggregates, vouchers)
           => /\ outcome.status = "returned"
              /\ \A others \in AggregateTags :
                     outcome.value =
                         ParseVoucherSummaryResponse(VoucherSummaryTree(others, vouchers),
                                                     call.args.groupByType)
              /\ IF Truthy(call.args.groupByType)
                 THEN Get(Get(outcome.value, "total"), "count") = Num(Len(vouchers))
                 ELSE Get(outcome.value, "totalCount") = Num(Len(vouchers))

RECURSIVE ClosingValueTotal(_, _)
\* the closing values of the first k items of a summary, added up
ClosingValueTotal(items, k) ==
    IF k = 0 THEN 0 ELSE ClosingValueTotal(items, k - 1) + Get(items[k], "closingValue").n

\* the quantity the CLOSINGBALANCE tag of a stock node states: zero when the
\* tag is absent or its text is not a number
StatedQuantity(el) ==
    IF \E text \in TextsOf(el, "CLOSINGBALANCE") : text # <<>> /\ IsNumericToken(text[1])
    THEN CHOOSE n \in NumericRange : <<ToString(n)>> \in TextsOf(el, "CLOSINGBALANCE")
    ELSE 0

\* C20: for every response the stock summary has totalItems equal to the
\* number of items, totalValue equal to the sum of the items' closingValue,
\* and each item in exactly one of positiveStock, negativeStock and zeroStock
\* by the sign of its closingQuantity, a missing or non-numeric quantity
\* being zero, so that the three counts add up to totalItems.
C20_StockSummaryInvariants ==
    (pc = "done" /\ call.op = "StockItemService._parseStockSummaryResponse")
    => LET items == Get(outcome.value, "items").a
           summary == Get(outcome.value, "summary")
           Quantity(i) == Get(items[i], "closingQuantity")
       IN  /\ outcome.status = "returned"
           /\ Get(outcome.value, "totalItems") = Num(Len(items))
           /\ \A i \in 1..Len(items) :
                  Get(items[i], "closingValue").t = "number" /\ Quantity(i).t = "number"
           /\ Get(outcome.value, "totalValue") = Num(ClosingValueTotal(items, Len(items)))
           /\ Get(summary, "positiveStock") =
                  Num(Cardinality({i \in 1..Len(items) : Quantity(i).n > 0}))
           /\ Get(summary, "negativeStock") =
                  Num(Cardinality({i \in 1..Len(items) : Quantity(i).n < 0}))
           /\ Get(summary, "zeroStock") =
                  Num(Cardinality({i \in 1..Len(items) : Quantity(i).n = 0}))
           /\ Get(summary, "positiveStock").n + Get(summary, "negativeStock").n
                  + Get(summary, "zeroStock").n = Get(outcome.value, "totalItems").n
           /\ \A stockItems \in SeqsUpTo(StockElements, MaxItems) :
                  call.args.responseData = StockSummaryTree(stockItems)
                  => /\ Len(items) = Len(stockItems)
                     /\ \A i \in 1..Len(items) : Quantity(i) = Num(StatedQuantity(stockItems[i]))

\* a summary of two items, one with negative stock and one whose closing
\* balance is not a number
C20_Witness ==
    /\ pc = "done"
    /\ call.op = "StockItemService._parseStockSummaryResponse"
    /\ call.args.responseData =
           StockSummaryTree(<<Element("STOCKITEMS", <<>>,
                                  <<Leaf("NAME", <<"A">>), Leaf("CLOSINGBALANCE", <<"-1">>),
                                    Leaf("CLOSINGVALUE", <<"1">>)>>),
                              Element("STOCKITEMS", <<>>,
                                  <<Leaf("NAME", <<"A">>), Leaf("CLOSINGBALANCE", <<"x">>),
                                    Leaf("CLOSINGVALUE", <<"-2">>)>>)>>)
    /\ Get(outcome.value, "totalItems") = Num(2)
    /\ Get(outcome.value, "totalValue") = Num(-1)
    /\ Get(Get(outcome.value, "summary"), "negativeStock") = Num(1)
    /\ Get(Get(outcome.value, "summary"), "zeroStock") = Num(1)

---------------------------------------------------------------------------
(* Properties of formatDate                                                *)

\* the two-digit texts of the days of a month
TwoDigitDays ==
    <<"01", "02", "03", "04", "05", "06", "07", "08", "09", "10",
      "11", "12", "13", "14", "15", "16", "17", "18", "19", "20",
      "21", "22", "23", "24", "25", "26", "27", "28", "29", "30", "31">>

MonthAbbreviations ==
    <<"Jan", "Feb", "Mar", "Apr", "May", "Jun", "Jul", "Aug", "Sep", "Oct", "Nov", "Dec">>

\* the date (d, m, y) as a Date and as the text a caller writes for it
IsDateInput(v, d, m, y) ==
    \/ v = DateOf(d, m, y)
    \/ v = Str(<<TwoDigitDays[d], "-", MonthAbbreviations[m], "-", ToString(y)>>)

\* C21: formatDate maps every valid calendar date (d, m, y) to DD-MMM-YYYY
\* with a two-digit zero-padded day and the three-letter English month
\* abbreviation, no other day of the same year maps to the same string, and
\* the same date gives the same string each time.
C21_FormatDate ==
    (pc = "done" /\ call.op = "formatDate")
    => \A y \in Years : \A dm \in DaysOfYear(y) :
           IsDateInput(call.args.date, dm[1], dm[2], y)
           => /\ outcome.status = "returned"
              /\ outcome.value =
                     Str(<<TwoDigitDays[dm[1]], "-", MonthAbbreviations[dm[2]], "-",
                           ToString(y)>>)
              /\ outcome.value = FormatDate(call.args.date)
              /\ \A other \in DaysOfYear(y) :
                     other # dm
                     => FormatDate(DateOf(other[1], other[2], y)) # outcome.value

\* 5 September 2023, a single-digit day
C21_Witness ==
    /\ pc = "done"
    /\ call.op = "formatDate"
    /\ call.args.date = DateOf(5, 9, 2023)
    /\ outcome.value = Str(<<"05", "-", "Sep", "-", "2023">>)

---------------------------------------------------------------------------
(* Properties of testConnection                                            *)

\* the body of the answer carries an ERROR or LINEERROR tag
HasErrorTag(reply) ==
    /\ reply.kind = "xml"
    /\ ResponseBody(reply.tree).t = "object"
    /\ {"ERROR", "LINEERROR"} \cap DOMAIN ResponseBody(reply.tree).o # {}

\* the body of the answer carries an ERROR or LINEERROR tag that is not empty
HasErrorContent(reply) ==
    /\ HasErrorTag(reply)
    /\ \E tag \in {"ERROR", "LINEERROR"} :
           Get(ResponseBody(reply.tree), tag) \notin {Undefined, EmptyStr}

\* C22, as it is stated: testConnection never raises; for every outcome of
\* its request it returns a boolean, true exactly when the request completed
\* and the response parsed without an error tag.
C22_TestConnectionAsStated ==
    (pc = "done" /\ call.op = "testConnection")
    => /\ outcome.status = "returned"
       /\ outcome.value \in {Bool(TRUE), Bool(FALSE)}
       /\ outcome.value = Bool(TRUE)
              <=> (call.replies[1].kind = "xml" /\ ~HasErrorTag(call.replies[1]))

\* C22: testConnection never raises; for every outcome of its request it
\* returns a boolean, true exactly when the request completed and the
\* response parsed without an error tag that has content.
C22_TestConnection ==
    (pc = "done" /\ call.op = "testConnection")
    => /\ outcome.status = "returned"
       /\ outcome.value \in {Bool(TRUE), Bool(FALSE)}
       /\ Len(call.replies) = 1
       /\ sent = <<TestXml>>
       /\ outcome.value = Bool(TRUE)
              <=> (call.replies[1].kind = "xml" /\ ~HasErrorContent(call.replies[1]))

\* a refused connection: false, not an error
C22_Witness ==
    /\ pc = "done"
    /\ call.op = "testConnection"
    /\ call.replies = <<TransportFailure("ECONNREFUSED")>>
    /\ outcome = Returned(Bool(FALSE))

---------------------------------------------------------------------------
(* Properties of getLedgerList                                             *)

\* C23: getLedgerList filters by parent group: when filters.group is given
\* every ledger of the returned data has that group as its parent, count is
\* the length of the returned data, and activeOnly and nameContains (a
\* case-insensitive substring) restrict the same list further.
C23_LedgerListFilteredByGroup ==
    (pc = "done" /\ call.op = "getLedgerList" /\ outcome.status = "returned")
    => LET data == Get(outcome.value, "data").a
           filters == call.args.filters
       IN  /\ Get(outcome.value, "count") = Num(Len(data))
           /\ Truthy(Get(filters, "group"))
                  => \A i \in 1..Len(data) : Get(data[i], "parent") = Get(filters, "group")
           /\ Truthy(Get(filters, "activeOnly"))
                  => \A i \in 1..Len(data) : Get(data[i], "isActive") # Bool(FALSE)
           /\ Truthy(Get(filters, "nameContains"))
                  => \A i \in 1..Len(data) :
                         Includes(ToLowerCase(Get(data[i], "name").s),
                                  ToLowerCase(Get(filters, "nameContains").s))

---------------------------------------------------------------------------
(* Properties of the deletions                                             *)

DeleteOps == {"deleteLedger", "deleteStockItem"}

\* the name the deletion was called with
DeletedName ==
    IF call.op = "deleteLedger" THEN call.args.ledgerName ELSE call.args.stockItemName

\* the positions of the transaction-check requests among the requests sent
TransactionChecks(requests) ==
    {i \in 1..Len(requests) :
        \E el \in ElementsOf(requests[i], "REPORTNAME") :
            el.text \in {<<"Ledger Transactions">>, <<"Stock Transactions">>}}

\* the positions of the Delete imports among the requests sent
DeleteImports(requests) ==
    {i \in 1..Len(requests) :
        /\ \E el \in ElementsOf(requests[i], "TALLYREQUEST") : el.text = <<"Import Data">>
        /\ \E el \in ElementsOf(requests[i], "LEDGER") \cup ElementsOf(requests[i], "STOCKITEM") :
               \E k \in 1..Len(el.attrs) : el.attrs[k] = Attr("ACTION", <<"Delete">>)}

\* the request was answered, without an error, by a list of no transactions
ShowsNoTransactions(reply) ==
    /\ reply.kind = "xml"
    /\ ~HasErrorContent(reply)
    /\ TallyMessageOf(ResponseBody(reply.tree)) \in {Undefined, EmptyStr, Arr(<<>>)}

\* C24: deleteLedger and deleteStockItem without force send the Delete import
\* only after a transaction-check request whose response showed no
\* transactions; if the check finds transactions or its request fails, no
\* Delete import is sent and the operation raises. With force they send no
\* transaction-check request and exactly one Delete import.
C24_GuardedDelete ==
    (pc = "done" /\ call.op \in DeleteOps /\ Truthy(DeletedName))
    => IF Truthy(Get(call.args.options, "force"))
       THEN /\ Len(sent) = 1
            /\ TransactionChecks(sent) = {}
            /\ DeleteImports(sent) = {1}
       ELSE /\ Len(sent) \in {1, 2}
            /\ TransactionChecks(sent) = {1}
            /\ DeleteImports(sent) = (IF ShowsNoTransactions(call.replies[1]) THEN {2} ELSE {})
            /\ ~ShowsNoTransactions(call.replies[1])
                   => outcome.status = "raised" /\ Len(sent) = 1

\* a deletion whose transaction check was refused: nothing deleted, an error
C24_Witness ==
    /\ pc = "done"
    /\ call.op = "deleteLedger"
    /\ call.args.ledgerName = SomeName
    /\ ~Truthy(Get(call.args.options, "force"))
    /\ call.replies = <<TransportFailure("ECONNREFUSED")>>
    /\ outcome.status = "raised"
    /\ TransactionChecks(sent) = {1}
    /\ DeleteImports(sent) = {}

---------------------------------------------------------------------------
(* Properties of the voucher imports sent                                  *)

\* the import requests among the requests sent
ImportsSent ==
    {i \in 1..Len(sent) :
        \E el \in ElementsOf(sent[i], "TALLYREQUEST") : el.text = <<"Import Data">>}

WrittenEntries(voucher) ==
    SelectSeq(voucher.kids, LAMBDA kid : kid.tag = "LEDGERENTRIES.LIST")

\* the entry carries one AMOUNT, a number other than zero
HasNonZeroAmount(entry) ==
    \E n \in NumericRange \ {0} : TextsOf(entry, "AMOUNT") = {<<ToString(n)>>}

\* the signed amount an entry carries: negative when its flag is 'No'
WrittenAmount(entry) ==
    (CHOOSE n \in NumericRange : TextsOf(entry, "AMOUNT") = {<<ToString(n)>>})
    * (IF TextsOf(entry, "ISDEEMEDPOSITIVE") = {<<"No">>} THEN -1 ELSE 1)

RECURSIVE WrittenTotal(_)
WrittenTotal(entries) ==
    IF entries = <<>> THEN 0 ELSE WrittenAmount(Head(entries)) + WrittenTotal(Tail(entries))

\* at least two entries, each with a non-zero amount, balanced within the tolerance
IsBalancedVoucher(voucher) ==
    /\ Len(WrittenEntries(voucher)) >= 2
    /\ \A k \in 1..Len(WrittenEntries(voucher)) : HasNonZeroAmount(WrittenEntries(voucher)[k])
    /\ WrittenTotal(WrittenEntries(voucher)) \in (-Tolerance)..Tolerance

---------------------------------------------------------------------------
(* Properties of the order of the requests of an update                    *)

\* the export requests among the requests sent
ExportsSent ==
    {i \in 1..Len(sent) :
        \E el \in ElementsOf(sent[i], "TALLYREQUEST") : el.text = <<"Export Data">>}

\* the request got no answer, an answer that is no XML, or a remote error
IsFailure(reply) == reply.kind # "xml" \/ HasErrorContent(reply)

\* C26: in updateLedger, updateVoucher and updateStockItem the export that
\* fetches the current record is sent and answered before the import; when
\* the fetch fails no import is sent; on success exactly one fetch and one
\* import were sent; no request is sent again after a failure.
C26_UpdateOrdering ==
    (pc = "done" /\ call.op \in UpdateOps)
    => /\ Len(sent) <= 2
       /\ Len(call.replies) = Len(sent)
       /\ ExportsSent = (IF Len(sent) >= 1 THEN {1} ELSE {})
       /\ ImportsSent = (IF Len(sent) = 2 THEN {2} ELSE {})
       /\ (Len(sent) >= 1 /\ IsFailure(call.replies[1]))
              => Len(sent) = 1 /\ outcome.status = "raised"
       /\ (Len(sent) = 2 /\ IsFailure(call.replies[2])) => outcome.status = "raised"
       /\ outcome.status = "returned"
              => Len(sent) = 2 /\ ~IsFailure(call.replies[1]) /\ ~IsFailure(call.replies[2])

\* an update whose fetch was refused: one request, no import
C26_Witness ==
    /\ pc = "done"
    /\ call.op = "updateStockItem"
    /\ call.replies = <<TransportFailure("ECONNREFUSED")>>
    /\ ExportsSent = {1}
    /\ ImportsSent = {}
    /\ outcome.status = "raised"

---------------------------------------------------------------------------
(* Properties of the fields the entity builders write                      *)

EntityBuilders ==
    {"buildLedgerXml", "buildVoucherXml", "buildStockItemXml", "buildCompanyXml",
     "buildGroupXml"}

\* the field tags whose value depends on the input
InputFieldTags ==
    {"NAME", "PARENT", "ALIAS", "ISBILLWISEON", "ISCOSTCENTRESON", "OPENINGBALANCE",
     "VOUCHERTYPENAME", "DATE", "VOUCHERNUMBER", "NARRATION", "BASEUNITS"}

\* how often the tag occurs directly under the element
Occurrences(el, tag) == Cardinality({k \in 1..Len(el.kids) : el.kids[k].tag = tag})

\* C27: in the output of each entity builder, for every input, each field tag
\* whose value depends on the input occurs at most once directly under the
\* entity element, whether or not optional inputs are supplied.
C27_FieldsOccurAtMostOnce ==
    (pc = "done" /\ call.op \in EntityBuilders /\ outcome.status = "returned")
    => /\ Len(built) = 1
       /\ Len(built[1].kids) = 1
       /\ \A tag \in InputFieldTags : Occurrences(built[1].kids[1], tag) <= 1

---------------------------------------------------------------------------
(* Properties of the amount of a listed voucher                            *)

\* the vouchers of the answer the interpreter was given
ListedPayload == AsArray(Or(Payload, Arr(<<>>)))

\* the signed amounts reconstructed from the entries of a voucher node
ReconstructedAmounts(voucher) ==
    LET entries == ParseLedgerEntries(Or(Get(voucher, "LEDGERENTRIES.LIST"), Arr(<<>>))).a
    IN  [k \in 1..Len(entries) |-> Get(entries[k], "amount").n]

RECURSIVE Total(_)
\* the sum of a sequence of numbers
Total(amounts) == IF amounts = <<>> THEN 0 ELSE Head(amounts) + Total(Tail(amounts))

\* the sum of f over a sequence of numbers
TotalOver(amounts, f(_)) == Total([k \in 1..Len(amounts) |-> f(amounts[k])])

\* C28: the voucher list interpreter gives each voucher as its amount half the
\* sum of the absolute values of its reconstructed entry amounts; when the
\* signed amounts sum to zero, whatever the number of entries, the amount is
\* the total of the positive entries and the total of the absolute negative
\* entries; a voucher without entries has amount 0.
C28_VoucherAmountIsHalfOfAbsoluteSum ==
    (/\ pc = "done"
     /\ call.op = "VoucherService._parseVoucherListResponse"
     /\ HasRequestData(ResponseBody(call.args.responseData)))
    => /\ outcome.status = "returned"
       /\ Len(outcome.value.a) = Len(ListedPayload)
       /\ \A i \in 1..Len(ListedPayload) :
              LET amounts == ReconstructedAmounts(ListedPayload[i])
                  amount == Get(outcome.value.a[i], "amount")
              IN  /\ Twice(amount) = TotalOver(amounts, LAMBDA a : IF a < 0 THEN -a ELSE a)
                  /\ TotalOver(amounts, LAMBDA a : a) = 0
                         => /\ amount = Num(TotalOver(amounts, LAMBDA a : IF a > 0 THEN a ELSE 0))
                            /\ amount = Num(TotalOver(amounts, LAMBDA a : IF a < 0 THEN -a ELSE 0))
                  /\ amounts = <<>> => amount = Num(0)

\* a lone voucher of three entries, 2 against 1 and 1: its amount is 2
C28_Witness ==
    /\ pc = "done"
    /\ call.op = "VoucherService._parseVoucherListResponse"
    /\ Len(ListedPayload) = 1
    /\ ReconstructedAmounts(ListedPayload[1]) = <<2, -1, -1>>
    /\ Get(outcome.value.a[1], "amount") = Num(2)

---------------------------------------------------------------------------
(* Properties of getCompanyList with its detail requests in flight together *)

\* the detail request of the i-th listed company was answered without a failure
DetailSucceeded(i) == call.answers[i] \notin {NotAsked, InFlight} /\ ~IsFailure(call.answers[i])

\* C29: getCompanyList with includeDetails issues the detail requests
\* together; in whatever order they are answered and whichever of them fail,
\* the returned data has the length and the order of the base list, a company
\* whose detail request succeeded is merged with the details of its own
\* request, a company whose detail request failed keeps its basic entry, and
\* count is the length of data.
C29_DetailsMergedInListOrder ==
    (/\ pc = "done"
     /\ call.op = "getCompanyList"
     /\ "answers" \in DOMAIN call
     /\ outcome.status = "returned")
    => LET base == ParseCompanyListResponse(call.replies[1].tree).a
           data == Get(outcome.value, "data").a
       IN  /\ Len(data) = Len(base)
           /\ Get(outcome.value, "count") = Num(Len(data))
           /\ \A i \in 1..Len(base) :
                  /\ Get(data[i], "lastModified") = Get(base[i], "lastModified")
                  /\ IF DetailSucceeded(i)
                     THEN data[i] = Spread(base[i], ParseCompanyResponse(call.answers[i].tree))
                     ELSE data[i] = base[i]

\* two companies, the details of the second answered first and those of the
\* first refused: the first keeps its basic entry, the second has its details
C29_Witness ==
    /\ pc = "done"
    /\ call.op = "getCompanyList"
    /\ "answers" \in DOMAIN call
    /\ Len(call.companies) = 2
    /\ call.order = <<2, 1>>
    /\ call.answers[1] = TransportFailure("ECONNREFUSED")
    /\ call.answers[2] = Xml(Xml2Js(ExportDocument(<<CompanyDetails("MH")>>)))
    /\ Get(outcome.value, "data").a[1] = call.companies[1]
    /\ Get(Get(outcome.value, "data").a[2], "state") = Lit("MH")
    /\ Get(Get(outcome.value, "data").a[2], "lastModified") = Lit("2")

---------------------------------------------------------------------------
(* The connector's configuration stays consistent                          *)

\* baseUrl is rebuilt from host and port, and the client follows
ConfigurationConsistent ==
    /\ connector.baseUrl = Str(<<"http://">> \o Interp(connector.host)
                               \o <<":">> \o Interp(connector.port))
    /\ connector.client.baseURL = connector.baseUrl
    /\ connector.client.timeout = connector.timeout

\* getConnectionInfo returns the four fields as they are
ConnectionInfoIsCurrent ==
    (pc = "done" /\ call.op = "getConnectionInfo")
        => /\ outcome.status = "returned"
           /\ outcome.value = Obj([host |-> connector.host, port |-> connector.port,
                                   baseUrl |-> connector.baseUrl,
                                   timeout |-> connector.timeout])

\* a connector constructed with no configuration has the defaults
ConstructedWithDefaults ==
    (pc = "done" /\ call.op = "constructor" /\ call.args[1] \in {Undefined, Obj(<<>>)})
        => /\ connector.host = Lit("localhost")
           /\ connector.port = Num(9000)
           /\ connector.timeout = Num(30000)

\* a step of updateConfig leaves every field its argument does not have
UpdateConfigKeepsAbsentFields ==
    (pc = "idle" /\ pc' = "done" /\ call'.op = "updateConfig")
        => \A field \in ConfigFields :
               (call'.args[1] = Undefined \/ field \notin DOMAIN call'.args[1].o)
                   => connector'[field] = connector[field]

\* C30: after construction and after any sequence of updateConfig calls,
\* baseUrl is 'http://' + host + ':' + port, the HTTP client's base URL and
\* timeout are baseUrl and timeout, and getConnectionInfo returns the current
\* host, port, baseUrl and timeout; updateConfig leaves the fields absent
\* from its argument unchanged; a connector constructed with no configuration
\* has host 'localhost', port 9000 and timeout 30000.
C30_ConfigurationInvariant ==
    /\ [](ConfigurationConsistent /\ ConnectionInfoIsCurrent /\ ConstructedWithDefaults)
    /\ [][UpdateConfigKeepsAbsentFields]_vars

\* updateConfig({port: 9001, timeout: 45000}) on a connector constructed for
\* another host: the host stays, baseUrl and the client follow the new port
C30_Witness ==
    /\ pc = "done"
    /\ call.op = "updateConfig"
    /\ call.args[1] = Obj([port |-> Num(9001), timeout |-> Num(45000)])
    /\ connector.host = Lit("tally.local")
    /\ connector.baseUrl = Str(<<"http://", "tally.local", ":", "9001">>)
    /\ connector.client = [baseURL |-> connector.baseUrl, timeout |-> Num(45000)]

=============================================================================
